---- MODULE Spec2Model ----
(***************************************************************************)
(* Email-Agent: the agent lifecycle controller (src/src/agent_controller.py)*)
(* and the polling worker it spawns (src/src/main.py, run_polling_loop).    *)
(*                                                                         *)
(* The controller's three operations run on one command-handling context   *)
(* (one operation at a time); the worker runs on its own thread, so worker  *)
(* steps interleave with the controller's reads and writes of the module    *)
(* globals.  An operation is therefore split exactly at its accesses to     *)
(* state the worker shares (thread liveness, the event, agent_status).      *)
(*                                                                         *)
(* A pass of the classification pipeline (src/src/agent.py, process_emails, *)
(* with src/src/categorizer.py and src/src/gmail_client.py) is a machine of *)
(* its own, PipeSpec: the worker sees of a pass only whether it returned or *)
(* raised.  CategorizeSpec is categorize's mapping of one oracle text.      *)
(* CycleSpec is the polling loop calling process_emails again and again    *)
(* over an inbox that stays unread.                                        *)
(*                                                                         *)
(* The chat bot's draft handlers (src/src/telegram_bot.py) are BotSpec:     *)
(* one step per update, the drafts and the chat states being its own.       *)
(*                                                                         *)
(* ChatSpec adds the chat commands to the updates of BotSpec.               *)
(* SurfaceSpec puts the two control surfaces side by side in one process:   *)
(* the chat commands, which call agent_controller, and the HTTP endpoints   *)
(* of src/src/api.py, which keep module globals of their own.               *)
(***************************************************************************)
EXTENDS Naturals, Integers, Sequences, FiniteSets, TLC

\* ------------------------------------------------------------- bounds
\* number of threads start_agent may create in one behaviour
MaxWorkers == 2
\* last second of the wall clock
MaxTime == 1
\* longest run of whitespace the oracle puts before or after its answer
MaxPad == 1
\* most messages get_emails_since returns to one pass
MaxBatch == 3
\* calls of process_emails in a run of the polling loop
MaxPasses == 2
\* src/src/main.py imports POLLING_INTERVAL from src.config; seconds of sleep
\* between two monitoring passes
POLLING_INTERVAL == 2

Workers == 1..MaxWorkers
Modes == {"monitor", "backfill"}
Statuses == {"Stopped", "Running", "Stopping..."}

VARIABLES
    agent_thread,    \* 0 = None, else the id of the Thread object stored
    stop_event,      \* 0 = None, else the id of the Event object stored
    agent_status,    \* "Stopped" | "Running" | "Stopping..."
    last_run_time,   \* Never, or the formatted time of the last worker start
    evset,           \* evset[e]: threading.Event e is set
    wpc,             \* wpc[w]: position of thread w
    wmode,           \* wmode[w]: the mode argument thread w was created with
    wi,              \* wi[w]: the sleep loop's counter i of thread w
    cpc,             \* position of the command-handling context
    result,          \* value returned by the last controller operation
    now,             \* wall clock, in seconds
    wexit,           \* history: why thread w left run_polling_loop
    lastWrite,       \* history: what thread w assigned last ("Stopped": agent_status)
    statusWriter     \* history: who assigned agent_status last

vars == <<agent_thread, stop_event, agent_status, last_run_time, evset, wpc,
          wmode, wi, cpc, result, now, wexit, lastWrite, statusWriter>>

ctlvars == <<agent_thread, stop_event, agent_status, last_run_time>>
wvars == <<wpc, wmode, wi, wexit, lastWrite>>

\* the classification pipeline: one GmailLLMAgent, its mailbox and its console
VARIABLES
    telegram_set,    \* `self.telegram_token and self.chat_id` is truthy
    inbox,           \* unread messages of the inbox inside the lookback window
    console_unicode, \* stdout can encode every character (else print may raise)
    labels,          \* names of the mailbox's user labels
    msg_labels,      \* msg_labels[m]: labelIds of message m, as the mailbox lists them
    ppc,             \* position of process_emails
    emails,          \* the batch of this pass, a sequence of message ids
    idx,             \* position of the running loop in its list
    email,           \* email[m]: the keys categorize added to the dict of message m
    results,         \* categorize's `results` / process_emails' categorized_emails
    response_msg,    \* categorize's local: the text the oracle answered last
    response,        \* categorize's local: that text, normalised
    applied,         \* history: <<message, label id>> of each messages().modify done
    notified,        \* history: callback_data of each notification posted
    fault,           \* history: a call to the oracle, the mailbox or the console failed
    create_call,     \* the labels().create call of the turn's last step, if it made
                     \* one: <<name, a label of the mailbox matched the name>>
    modify_call,     \* the messages().modify call of the turn's last step, if it
                     \* made one: the message, and whether a label id was given
    passes           \* history: calls of process_emails so far

penv == <<telegram_set, console_unicode, inbox>>
mailbox == <<labels, msg_labels>>
pass_log == <<applied, notified, fault, create_call, modify_call, passes>>
pvars == <<penv, mailbox, pass_log, ppc, emails, idx, email, results,
           response_msg, response>>

\* the chat bot: one TelegramBotHandler
VARIABLES
    llm_set,         \* GOOGLE_API_KEY is set: the bot has a categorizer
    drafts,          \* self.drafts[chat]: the chat's draft, if it has one
    user_states,     \* self.user_states[chat]: what the chat's next text is awaited as
    update,          \* the update handled last
    reply,           \* what its handler answered into the chat last
    calls,           \* the mailbox and oracle calls its handler made, in order
    sent_message,    \* what send_reply returned to its handler, if it was called
    before           \* history: the draft and the state its chat had before it

bvars == <<llm_set, drafts, user_states, update, reply, calls, sent_message, before>>

\* the HTTP surface: the module globals of api.py, which are its own
VARIABLES
    api_agent_thread,   \* api.agent_thread: 0 = None, else the id of the Thread stored
    api_stop_event,     \* api.stop_event: 0 = None, else the id of the Event stored
    api_agent_status,   \* api.agent_status
    api_last_run_time,  \* api.last_run_time
    wtarget             \* wtarget[w]: the module whose wrapper is thread w's target

apivars == <<api_agent_thread, api_stop_event, api_agent_status, api_last_run_time,
             wtarget>>

allvars == <<vars, pvars, bvars, apivars>>

\* ------------------------------------------------------------- helpers
\* last_run_time = "Never"
Never == <<>>

\* time.strftime("%Y-%m-%d %H:%M:%S"): one string per second, none equal to "Never"
strftime(t) == <<t>>

\* Thread.is_alive(): true from start() until the thread's bootstrap has finished,
\* which is after the target function (and its finally block) returned
is_alive(w) == wpc[w] \notin {"unborn", "dead"}

\* `agent_thread and agent_thread.is_alive()`
thread_alive == agent_thread # 0 /\ is_alive(agent_thread)

AliveWorkers == {w \in Workers : is_alive(w)}

\* variant: every thread waits on the one Event made by the first start
event_of_first(w) == 1

\* the Event object a thread was handed at creation: args=(stop_event, mode) binds
\* the event made by the same start_agent call, whose id is the thread's own
event_of(w) == w

NoResult == [op |-> "none", success |-> FALSE, message |-> "", status |-> "", last_run |-> Never]

Ret(op, ok, msg) ==
    [op |-> op, success |-> ok, message |-> msg, status |-> "", last_run |-> Never]

StatusRet(s, l) ==
    [op |-> "status", success |-> TRUE, message |-> "", status |-> s, last_run |-> l]

\* ------------------------------------------------------------- the pipeline
\* One GmailLLMAgent (src/src/agent.py) with its EmailCategorizer
\* (src/src/categorizer.py) and GmailHandler (src/src/gmail_client.py): passes of
\* process_emails over the mailbox.  Text is a sequence of characters, so that
\* strip() and lower() do what they do in Python.

Whitespace == {" ", "\n"}

UpperLetters == <<"A", "B", "C", "D", "E", "F", "G", "H", "I", "J", "K", "L", "M",
                  "N", "O", "P", "Q", "R", "S", "T", "U", "V", "W", "X", "Y", "Z">>
LowerLetters == <<"a", "b", "c", "d", "e", "f", "g", "h", "i", "j", "k", "l", "m",
                  "n", "o", "p", "q", "r", "s", "t", "u", "v", "w", "x", "y", "z">>

\* the lower-case letter of each upper-case letter, and the other way round
LowerOf ==
    [c \in {UpperLetters[i] : i \in 1..26} |->
        LowerLetters[CHOOSE i \in 1..26 : UpperLetters[i] = c]]
UpperOf ==
    [c \in {LowerLetters[i] : i \in 1..26} |->
        UpperLetters[CHOOSE i \in 1..26 : LowerLetters[i] = c]]

lower_char(c) == IF c \in DOMAIN LowerOf THEN LowerOf[c] ELSE c

upper_char(c) == IF c \in DOMAIN UpperOf THEN UpperOf[c] ELSE c

\* str.lower()
lower(s) == [i \in 1..Len(s) |-> lower_char(s[i])]

\* str.upper()
upper(s) == [i \in 1..Len(s) |-> upper_char(s[i])]

\* str.capitalize() of text that is all lower case
capitalize(s) == [i \in 1..Len(s) |-> IF i = 1 THEN upper_char(s[i]) ELSE s[i]]

RECURSIVE lstrip(_)
lstrip(s) == IF s # <<>> /\ Head(s) \in Whitespace THEN lstrip(Tail(s)) ELSE s

RECURSIVE rstrip(_)
rstrip(s) ==
    IF s # <<>> /\ s[Len(s)] \in Whitespace THEN rstrip(SubSeq(s, 1, Len(s) - 1)) ELSE s

\* str.strip()
strip(s) == rstrip(lstrip(s))

\* the keys of JOB_CATEGORIES, in the order of the dictionary
TaxonomyKeys ==
    {"application_confirmed", "interview_request", "interview_reminder", "offer",
     "rejected", "assessment", "follow_up", "job_alert",
     "newsletter", "spam", "uncategorized"}

\* the characters of each key: what the oracle's text is compared with
KeyText ==
    [k \in TaxonomyKeys |->
        CASE k = "application_confirmed" -> <<"a", "p", "p", "l", "i", "c", "a", "t", "i", "o", "n", "_", "c", "o", "n", "f", "i", "r", "m", "e", "d">>
          [] k = "interview_request" -> <<"i", "n", "t", "e", "r", "v", "i", "e", "w", "_", "r", "e", "q", "u", "e", "s", "t">>
          [] k = "interview_reminder" -> <<"i", "n", "t", "e", "r", "v", "i", "e", "w", "_", "r", "e", "m", "i", "n", "d", "e", "r">>
          [] k = "offer" -> <<"o", "f", "f", "e", "r">>
          [] k = "rejected" -> <<"r", "e", "j", "e", "c", "t", "e", "d">>
          [] k = "assessment" -> <<"a", "s", "s", "e", "s", "s", "m", "e", "n", "t">>
          [] k = "follow_up" -> <<"f", "o", "l", "l", "o", "w", "_", "u", "p">>
          [] k = "job_alert" -> <<"j", "o", "b", "_", "a", "l", "e", "r", "t">>
          [] k = "newsletter" -> <<"n", "e", "w", "s", "l", "e", "t", "t", "e", "r">>
          [] k = "spam" -> <<"s", "p", "a", "m">>
          [] k = "uncategorized" -> <<"u", "n", "c", "a", "t", "e", "g", "o", "r", "i", "z", "e", "d">>]

\* JOB_CATEGORIES[k]["label"]: the display label of each key, as characters; the
\* closing pictograph of every label is written "*"
JOB_CATEGORIES ==
    [k \in TaxonomyKeys |->
        [label |->
            CASE k = "application_confirmed" -> <<"A", "p", "p", "l", "i", "e", "d", " ", "*">>
              [] k = "interview_request" -> <<"I", "n", "t", "e", "r", "v", "i", "e", "w", " ", "*">>
              [] k = "interview_reminder" -> <<"I", "n", "t", "e", "r", "v", "i", "e", "w", " ", "R", "e", "m", "i", "n", "d", "e", "r", " ", "*">>
              [] k = "offer" -> <<"J", "o", "b", " ", "O", "f", "f", "e", "r", " ", "*">>
              [] k = "rejected" -> <<"R", "e", "j", "e", "c", "t", "e", "d", " ", "*">>
              [] k = "assessment" -> <<"A", "s", "s", "e", "s", "s", "m", "e", "n", "t", " ", "*">>
              [] k = "follow_up" -> <<"F", "o", "l", "l", "o", "w", "-", "u", "p", " ", "*">>
              [] k = "job_alert" -> <<"J", "o", "b", " ", "A", "l", "e", "r", "t", " ", "*">>
              [] k = "newsletter" -> <<"N", "e", "w", "s", "l", "e", "t", "t", "e", "r", " ", "*">>
              [] k = "spam" -> <<"S", "p", "a", "m", " ", "*">>
              [] k = "uncategorized" -> <<"O", "t", "h", "e", "r", " ", "*">>]]

\* config.IMPORTANT_CATEGORIES
IMPORTANT_CATEGORIES == {"interview_request", "interview_reminder", "follow_up"}

\* variant: the oracle's text is trimmed but its case is kept
normalise_keep_case(content) == strip(content)

\* `response = response_msg.content.strip().lower()`
normalise(content) == lower(strip(content))

\* `response in JOB_CATEGORIES`
is_key(text) == \E k \in TaxonomyKeys : KeyText[k] = text

\* variant: a text that begins with a key is taken for that key
category_key_by_prefix(text) ==
    IF \E k \in TaxonomyKeys :
          Len(KeyText[k]) <= Len(text) /\ SubSeq(text, 1, Len(KeyText[k])) = KeyText[k]
    THEN CHOOSE k \in TaxonomyKeys :
          Len(KeyText[k]) <= Len(text) /\ SubSeq(text, 1, Len(KeyText[k])) = KeyText[k]
    ELSE "uncategorized"

\* `category_key = response if response in JOB_CATEGORIES else "uncategorized"`
category_key(text) ==
    IF is_key(text)
    THEN CHOOSE k \in TaxonomyKeys : KeyText[k] = text
    ELSE "uncategorized"

\* what categorize stores in the email for an oracle text
classified(content) ==
    LET k == category_key(normalise(content))
    IN  [category |-> k, category_label |-> JOB_CATEGORIES[k].label]

\* an email as get_email_details returns it: no "category" and no "category_label"
NoLabel == <<>>
Unclassified == [category |-> "none", category_label |-> NoLabel]

\* ---- inputs: the oracle's answers
Msgs == 1..MaxBatch

\* keys the oracle answers with
OracleKeys == {"interview_request", "newsletter", "offer", "uncategorized"}

\* keys the oracle answers with during a pass: "uncategorized" is then only ever
\* the fallback
BatchKeys == {"interview_request", "newsletter", "offer"}

\* answers that are no key: nothing, a key with one more letter, two words
Garbled ==
    {<<>>,
     <<"o", "f", "f", "e", "r", "s">>,
     <<"j", "o", "b", " ", "o", "f", "f", "e", "r">>}

Pads == UNION {[1..n -> Whitespace] : n \in 0..MaxPad}

Casings(b) == {b, capitalize(b), upper(b)}

\* what the oracle means to say: a key, or something that is none
OracleAnswers == {KeyText[k] : k \in OracleKeys} \cup Garbled

\* an answer with whitespace around it and in one of three casings
OracleTexts ==
    {lead \o c \o trail :
        lead \in Pads, trail \in Pads, c \in UNION {Casings(b) : b \in OracleAnswers}}

\* the answers a pass draws from: every key the oracle uses as it is written, one
\* of them capitalised with a newline after it, and the garbled answers
BatchTexts ==
    {KeyText[k] : k \in BatchKeys}
        \cup {capitalize(KeyText["interview_request"]) \o <<"\n">>}
        \cup Garbled

\* the local `response` when no oracle text is held
NoResponse == <<"<none>">>

\* ---- the Mailbox Gateway
\* a label id that is None
None == <<>>

\* labels of the mailbox that match a name as check_label_exists and
\* _get_label_id compare them: `label['name'].lower() == label_name.lower()`
matching(listing, label_name) == {l \in listing : lower(l) = lower(label_name)}

\* what get_labels may return: the user labels, or [] when the call raised
listings == {labels, {}}

\* users().labels().create: the service refuses a name that conflicts with an
\* existing label, or the call fails (g = "error")
created(label_name, g) == g = "ok" /\ matching(labels, label_name) = {}

\* the mailbox's labels after create_label(label_name)
labels_after_create(label_name, g) ==
    IF created(label_name, g) THEN labels \cup {label_name} ELSE labels

\* what create_label returns: the label, or None when the call raised or when
\* printing the label's name (line 157, inside the try) raised UnicodeEncodeError
create_label(label_name, g) ==
    IF created(label_name, g) /\ console_unicode THEN label_name ELSE None

\* the id of a label is modelled by its name: one id per label
label_id(l) == l

\* variant: every category is important
important_always(k) == TRUE

\* `category_key in self.IMPORTANT_CATEGORIES`
important(k) == k \in IMPORTANT_CATEGORIES

\* variant: the notification does not depend on the Telegram settings
should_notify_unconfigured(k) == important(k)

\* line 58: `category_key in self.IMPORTANT_CATEGORIES and self.telegram_token and self.chat_id`
should_notify(k) == important(k) /\ telegram_set

\* f"reply:{email['id']}"
callback_data(m) == <<"reply", m>>

\* the pipeline before its first pass
PipeIdle ==
    /\ ppc = "idle"
    /\ emails = <<>>
    /\ idx = 0
    /\ email = <<>>
    /\ results = <<>>
    /\ response_msg = NoResponse
    /\ response = NoResponse
    /\ applied = <<>>
    /\ notified = <<>>
    /\ fault = FALSE
    /\ create_call = <<>>
    /\ modify_call = <<>>
    /\ passes = 0
    /\ msg_labels = [m \in Msgs |-> <<>>]

\* ------------------------------------------------------------- the chat bot
\* TelegramBotHandler of src/src/telegram_bot.py.  The Application is built with
\* its defaults, so updates are handled one after the other: a handler is one step.
\* Messages sent to the chat are taken to arrive; the mailbox client and the oracle
\* may fail.  Text is a sequence of tokens.

\* chats an update can come from
Chats == {1, 2}

\* str(update.effective_chat.id)
str(n) == <<ToString(n)>>

\* TELEGRAM_CHAT_ID, a string of the environment
authorized_chat_id == <<"1">>

\* variant: every chat passes the check
authorized_anyone(c) == TRUE

\* lines 34, 51, 68, 85, 169: `str(update.effective_chat.id) != self.authorized_chat_id`
authorized(c) == str(c) = authorized_chat_id

\* the texts the operator types
FreeTexts == {<<"make", " ", "it", " ", "shorter">>, <<"Thanks", ",", " ", "see", " ", "you", ".">>}

\* get_email_details(m): the fields of message m the bot uses
email_details(m) ==
    [id |-> m,
     threadId |-> <<"thread", ToString(m)>>,
     from |-> <<"sender", ToString(m)>>,
     subject |-> <<"subject", ToString(m)>>,
     snippet |-> <<"snippet", ToString(m)>>]

\* line 329: f"Subject: {subject}\nFrom: {from}\n\n{snippet}"
email_content_of(d) ==
    <<"Subject: ">> \o d.subject \o <<"\n", "From: ">> \o d.from \o <<"\n", "\n">> \o d.snippet

\* line 340: f"Re: {subject}"
reply_subject(d) == <<"Re: ">> \o d.subject

\* what the oracle writes for a prompt made of the email and the instructions; it
\* ends its text with a newline
oracle_reply(email_content, instructions) ==
    <<"Reply to [">> \o email_content \o <<"] as told [">> \o instructions \o <<"]", "\n">>

\* categorizer.py, lines 59-95: generate_reply returns the oracle's text stripped,
\* or a fixed text when anything raised
generate_reply(email_content, instructions, oracle) ==
    IF oracle = "ok"
    THEN strip(oracle_reply(email_content, instructions))
    ELSE <<"Error generating reply.">>

\* the calls a handler makes to the mailbox and the oracle
get_email_details_call(m) == <<"get_email_details", m>>
generate_reply_call(email_content, instructions) ==
    <<"generate_reply", email_content, instructions>>
get_label_statistics_call == <<"get_label_statistics">>
send_reply_call(thread_id, to, subject, body) ==
    <<"send_reply", thread_id, to, subject, body>>

\* no entry for the chat in self.drafts, in self.user_states
NoDraft == <<>>
NoState == <<>>

\* lines 336-343
new_draft(m, d, email_content, draft_body) ==
    [msg_id |-> m,
     thread_id |-> d.threadId,
     to |-> d.from,
     subject |-> reply_subject(d),
     body |-> draft_body,
     original_content |-> email_content]

\* the update a step handles
Update(kind, c, arg) == [kind |-> kind, chat |-> c, arg |-> arg]
NoUpdate == Update("none", 0, <<>>)

\* a handler's answer into the chat and its calls, with no change of the maps
answers(text, made) ==
    /\ reply' = text
    /\ calls' = made
    /\ UNCHANGED <<drafts, user_states>>

\* send_reply was not called
NotCalled == "not called"

\* what a chat has when an update arrives
Found(c) == [draft |-> drafts[c], state |-> user_states[c]]

\* TelegramBotHandler.__init__: no draft, no state
BotIdle ==
    /\ drafts = [c \in Chats |-> NoDraft]
    /\ user_states = [c \in Chats |-> NoState]
    /\ update = NoUpdate
    /\ reply = "none"
    /\ calls = <<>>
    /\ sent_message = NotCalled
    /\ before = [draft |-> NoDraft, state |-> NoState]

\* ------------------------------------------------------------- initial state
\* the module globals of agent_controller.py, and no thread yet
ControllerInit ==
    /\ agent_thread = 0
    /\ stop_event = 0
    /\ agent_status = "Stopped"
    /\ last_run_time = Never
    /\ evset = [e \in Workers |-> FALSE]
    /\ wpc = [w \in Workers |-> "unborn"]
    /\ wmode = [w \in Workers |-> "monitor"]
    /\ wi = [w \in Workers |-> 0]
    /\ cpc = "idle"
    /\ result = NoResult
    /\ now = 0
    /\ wexit = [w \in Workers |-> "none"]
    /\ lastWrite = [w \in Workers |-> "none"]
    /\ statusWriter = "module"

\* the module globals of api.py; every thread is the controller's until api.py
\* starts one
ApiInit ==
    /\ api_agent_thread = 0
    /\ api_stop_event = 0
    /\ api_agent_status = "Stopped"
    /\ api_last_run_time = Never
    /\ wtarget = [w \in Workers |-> "agent_controller"]

\* the controller with a pipeline that is not looked into
Init ==
    /\ ControllerInit
    /\ ApiInit
    /\ PipeIdle
    /\ BotIdle
    /\ llm_set = TRUE
    /\ telegram_set = TRUE
    /\ console_unicode = TRUE
    /\ inbox = 0
    /\ labels = {}

\* ------------------------------------------------------------- controller
\* variant: start_agent trusts the stored status instead of probing the thread
start_refused_by_status == agent_status # "Stopped"

\* variant: start_agent refuses only a live worker whose stored status is Running
start_refused_running_only == thread_alive /\ agent_status = "Running"

\* variant: a stale status (left by a dead worker) also refuses the start
start_refused_stale == thread_alive \/ agent_status # "Stopped"

\* the guard of start_agent: a live worker refuses the start
start_refused == thread_alive

\* start_agent, first part: the liveness probe, and on a dead or absent worker the
\* new Event, the new Thread and Thread.start()
start_agent(mode) ==
    /\ UNCHANGED <<pvars, bvars, apivars>>
    /\ cpc = "idle"
    /\ IF start_refused
       THEN /\ result' = Ret("start", FALSE, "Agent is already running")
            /\ UNCHANGED <<ctlvars, evset, wvars, cpc, now, statusWriter>>
       ELSE \E w \in Workers :
            /\ wpc[w] = "unborn"
            /\ \A v \in Workers : v < w => wpc[v] # "unborn"
            /\ stop_event' = w
            /\ agent_thread' = w
            /\ evset' = [evset EXCEPT ![w] = FALSE]
            /\ wpc' = [wpc EXCEPT ![w] = "begin"]
            /\ wmode' = [wmode EXCEPT ![w] = mode]
            /\ cpc' = "start_write"
            /\ UNCHANGED <<agent_status, last_run_time, wi, result, now, wexit, lastWrite,
                           statusWriter>>

\* start_agent, second part: agent_status = "Running" and the return
start_agent_write ==
    /\ UNCHANGED <<pvars, bvars, apivars>>
    /\ cpc = "start_write"
    /\ agent_status' = "Running"
    /\ statusWriter' = "start_agent"
    /\ result' = Ret("start", TRUE, "Agent started successfully")
    /\ cpc' = "idle"
    /\ UNCHANGED <<agent_thread, stop_event, last_run_time, evset, wvars, now>>

\* variant: stop_agent trusts the stored status instead of probing the thread
stop_refused_by_status == agent_status = "Stopped"

\* the guard of stop_agent: no thread, or a dead one, refuses the stop
stop_refused == ~thread_alive

\* stop_agent, first part: the liveness probe
stop_agent ==
    /\ UNCHANGED <<pvars, bvars, apivars>>
    /\ cpc = "idle"
    /\ IF stop_refused
       THEN /\ result' = Ret("stop", FALSE, "Agent is not running")
            /\ UNCHANGED cpc
       ELSE /\ cpc' = "stop_set"
            /\ UNCHANGED result
    /\ UNCHANGED <<ctlvars, evset, wvars, now, statusWriter>>

\* variant: stop_agent never sets the event (the `if stop_event` test inverted)
stop_agent_set_skipped ==
    /\ UNCHANGED <<pvars, bvars, apivars>>
    /\ cpc = "stop_set"
    /\ evset' = IF stop_event = 0 THEN [e \in Workers |-> TRUE] ELSE evset
    /\ cpc' = "stop_write"
    /\ UNCHANGED <<ctlvars, wvars, result, now, statusWriter>>

\* stop_agent, second part: `if stop_event: stop_event.set()`
stop_agent_set ==
    /\ UNCHANGED <<pvars, bvars, apivars>>
    /\ cpc = "stop_set"
    /\ evset' = IF stop_event # 0 THEN [evset EXCEPT ![stop_event] = TRUE] ELSE evset
    /\ cpc' = "stop_write"
    /\ UNCHANGED <<ctlvars, wvars, result, now, statusWriter>>

\* stop_agent, third part: agent_status = "Stopping..." and the return
stop_agent_write ==
    /\ UNCHANGED <<pvars, bvars, apivars>>
    /\ cpc = "stop_write"
    /\ agent_status' = "Stopping..."
    /\ statusWriter' = "stop_agent"
    /\ result' = Ret("stop", TRUE, "Agent stopping...")
    /\ cpc' = "idle"
    /\ UNCHANGED <<agent_thread, stop_event, last_run_time, evset, wvars, now>>

\* variant: get_agent_status corrects any status a dead worker left, Stopping too
reconcile_any_status == agent_thread # 0 /\ ~is_alive(agent_thread) /\ agent_status # "Stopped"

\* variant: get_agent_status corrects Running without probing the thread
reconcile_no_probe == agent_thread # 0 /\ agent_status = "Running"

\* the condition under which get_agent_status corrects the stored status
reconcile == agent_thread # 0 /\ ~is_alive(agent_thread) /\ agent_status = "Running"

\* get_agent_status.  One step: when the probe finds the thread dead the worker
\* writes nothing any more, and when it finds it alive the operation only reads.
get_agent_status ==
    /\ UNCHANGED <<pvars, bvars, apivars>>
    /\ cpc = "idle"
    /\ agent_status' = IF reconcile THEN "Stopped" ELSE agent_status
    /\ statusWriter' = IF reconcile THEN "get_agent_status" ELSE statusWriter
    /\ result' = StatusRet(agent_status', last_run_time)
    /\ UNCHANGED <<agent_thread, stop_event, last_run_time, evset, wvars, cpc, now>>

\* ------------------------------------------------------------- worker
\* _run_agent_wrapper, the try block's first statement
wrapper_begin(w) ==
    /\ UNCHANGED <<pvars, bvars, apivars>>
    /\ wtarget[w] = "agent_controller"
    /\ wpc[w] = "begin"
    /\ last_run_time' = strftime(now)
    /\ lastWrite' = [lastWrite EXCEPT ![w] = "last_run_time"]
    /\ wpc' = [wpc EXCEPT ![w] = "init"]
    /\ UNCHANGED <<agent_thread, stop_event, agent_status, evset, wmode, wi, cpc,
                   result, now, wexit, statusWriter>>

\* where run_polling_loop goes when initialize_agent returned an agent
after_init(w) == IF wmode[w] = "backfill" THEN "backfill" ELSE "looptop"

\* initialize_agent as run_polling_loop calls it: an agent, or None (Gmail handler
\* failed, API key missing), or an exception of the LLM or categorizer constructor
initialize_agent(w) ==
    /\ UNCHANGED <<pvars, bvars, apivars>>
    /\ wpc[w] = "init"
    /\ \E outcome \in {"agent", "none", "raise"} :
          /\ wpc' = [wpc EXCEPT ![w] = IF outcome = "agent" THEN after_init(w) ELSE "finally"]
          /\ wexit' = [wexit EXCEPT ![w] = CASE outcome = "agent" -> "none"
                                              [] outcome = "none" -> "init_failed"
                                              [] OTHER -> "exception"]
    /\ UNCHANGED <<ctlvars, evset, wmode, wi, cpc, result, now, lastWrite, statusWriter>>

\* variant: the wrapper has no finally block, a failed backfill just returns
after_backfill_no_finally(ok) == IF ok THEN "looptop" ELSE "exiting"

\* variant: a failed backfill is only logged and the monitoring loop is entered
after_backfill_continues(ok) == "looptop"

\* variant: run_polling_loop returns after the backfill pass, failed or not
after_backfill_returns(ok) == "finally"

\* where run_polling_loop goes after the backfill pass
after_backfill(ok) == IF ok THEN "looptop" ELSE "finally"

\* the one wide pass of backfill mode
backfill_pass(w) ==
    /\ UNCHANGED <<pvars, bvars, apivars>>
    /\ wpc[w] = "backfill"
    /\ \E ok \in BOOLEAN :
          /\ wpc' = [wpc EXCEPT ![w] = after_backfill(ok)]
          /\ wexit' = [wexit EXCEPT ![w] = IF ok THEN "none" ELSE "backfill_failed"]
    /\ UNCHANGED <<ctlvars, evset, wmode, wi, cpc, result, now, lastWrite, statusWriter>>

\* `while True: if stop_event and stop_event.is_set(): break`, else a pass begins
loop_top(w) ==
    /\ UNCHANGED <<pvars, bvars, apivars>>
    /\ wpc[w] = "looptop"
    /\ IF evset[event_of(w)]
       THEN /\ wpc' = [wpc EXCEPT ![w] = "finally"]
            /\ wexit' = [wexit EXCEPT ![w] = "cancelled"]
       ELSE /\ wpc' = [wpc EXCEPT ![w] = "pass"]
            /\ UNCHANGED wexit
    /\ UNCHANGED <<ctlvars, evset, wmode, wi, cpc, result, now, lastWrite, statusWriter>>

\* variant: the monitoring loop has no try/except, a raising pass ends the worker
after_pass_fatal(ok) == IF ok THEN "sleep_check" ELSE "finally"

\* where the monitoring loop goes after a narrow pass, raising or not: the sleep loop
after_pass(ok) == "sleep_check"

\* one narrow pass: process_emails returns or raises
monitor_pass(w) ==
    /\ UNCHANGED <<pvars, bvars, apivars>>
    /\ wpc[w] = "pass"
    /\ \E ok \in BOOLEAN :
          wpc' = [wpc EXCEPT ![w] = IF ok THEN "sleep_check" ELSE "pass_failed"]
    /\ wi' = [wi EXCEPT ![w] = 0]
    /\ UNCHANGED <<ctlvars, evset, wmode, cpc, result, now, wexit, lastWrite, statusWriter>>

\* the except block of the monitoring loop: the exception is printed and dropped
pass_failed(w) ==
    /\ UNCHANGED <<pvars, bvars, apivars>>
    /\ wpc[w] = "pass_failed"
    /\ wpc' = [wpc EXCEPT ![w] = after_pass(FALSE)]
    /\ UNCHANGED <<ctlvars, evset, wmode, wi, cpc, result, now, wexit, lastWrite, statusWriter>>

\* variant: the sleep loop does not look at the event
sleep_continues_unchecked(w) == wi[w] < POLLING_INTERVAL

\* the sleep loop sleeps once more: i is in range and the event is not set
sleep_continues(w) == wi[w] < POLLING_INTERVAL /\ ~evset[event_of(w)]

\* `for i in range(POLLING_INTERVAL): if stop_event.is_set(): break`
sleep_check(w) ==
    /\ UNCHANGED <<pvars, bvars, apivars>>
    /\ wpc[w] = "sleep_check"
    /\ IF sleep_continues(w)
       THEN /\ wpc' = [wpc EXCEPT ![w] = "sleeping"]
            /\ UNCHANGED wi
       ELSE /\ wpc' = [wpc EXCEPT ![w] = "looptop"]
            /\ wi' = [wi EXCEPT ![w] = 0]
    /\ UNCHANGED <<ctlvars, evset, wmode, cpc, result, now, wexit, lastWrite, statusWriter>>

\* time.sleep(1)
sleep_tick(w) ==
    /\ UNCHANGED <<pvars, bvars, apivars>>
    /\ wpc[w] = "sleeping"
    /\ wpc' = [wpc EXCEPT ![w] = "sleep_check"]
    /\ wi' = [wi EXCEPT ![w] = wi[w] + 1]
    /\ UNCHANGED <<ctlvars, evset, wmode, cpc, result, now, wexit, lastWrite, statusWriter>>

\* what the finally block of _run_agent_wrapper stores
finally_status == "Stopped"

\* _run_agent_wrapper: `finally: agent_status = "Stopped"`
wrapper_finally(w) ==
    /\ UNCHANGED <<pvars, bvars, apivars>>
    /\ wtarget[w] = "agent_controller"
    /\ wpc[w] = "finally"
    /\ agent_status' = finally_status
    /\ statusWriter' = "worker"
    /\ lastWrite' = [lastWrite EXCEPT ![w] = finally_status]
    /\ wpc' = [wpc EXCEPT ![w] = "exiting"]
    /\ UNCHANGED <<agent_thread, stop_event, last_run_time, evset, wmode, wi, cpc,
                   result, now, wexit>>

\* the target function has returned; the thread finishes and is_alive() turns false
thread_exit(w) ==
    /\ UNCHANGED <<pvars, bvars, apivars>>
    /\ wpc[w] = "exiting"
    /\ wpc' = [wpc EXCEPT ![w] = "dead"]
    /\ UNCHANGED <<ctlvars, evset, wmode, wi, cpc, result, now, wexit, lastWrite, statusWriter>>

\* the wall clock advances
Tick ==
    /\ UNCHANGED <<pvars, bvars, apivars>>
    /\ now < MaxTime
    /\ now' = now + 1
    /\ UNCHANGED <<ctlvars, evset, wvars, cpc, result, statusWriter>>

WorkerStep(w) ==
    \/ wrapper_begin(w)
    \/ initialize_agent(w)
    \/ backfill_pass(w)
    \/ loop_top(w)
    \/ monitor_pass(w)
    \/ pass_failed(w)
    \/ sleep_check(w)
    \/ sleep_tick(w)
    \/ wrapper_finally(w)
    \/ thread_exit(w)

Next ==
    \/ \E mode \in Modes : start_agent(mode)
    \/ start_agent_write
    \/ stop_agent
    \/ stop_agent_set
    \/ stop_agent_write
    \/ get_agent_status
    \/ \E w \in Workers : WorkerStep(w)
    \/ Tick

Spec == Init /\ [][Next]_vars

\* the worker thread is scheduled fairly and its external calls return; the
\* controller finishes an operation it has begun; nothing obliges anyone to call one
FairSpec ==
    /\ Spec
    /\ \A w \in Workers : WF_vars(WorkerStep(w))
    /\ WF_vars(start_agent_write)
    /\ WF_vars(stop_agent_set)
    /\ WF_vars(stop_agent_write)

TypeOK ==
    /\ agent_thread \in 0..MaxWorkers
    /\ stop_event \in 0..MaxWorkers
    /\ agent_status \in Statuses
    /\ wpc \in [Workers -> {"unborn", "begin", "init", "backfill", "looptop", "pass",
                            "pass_failed", "sleep_check", "sleeping", "finally", "exiting", "dead"}]
    /\ cpc \in {"idle", "start_write", "stop_set", "stop_write"}
    /\ now \in 0..MaxTime

\* ------------------------------------------------------------- process_emails
\* the emails get_emails_since returns: the first n unread messages, in order
fetched(n) == [i \in 1..n |-> i]

\* lines 23-31: get_emails_since returns the dicts of n of the inbox's emails (none
\* when the listing raised); an empty batch ends the pass, else categorize begins
process_emails ==
    /\ ppc = "idle"
    /\ \E n \in 0..inbox :
          /\ emails' = fetched(n)
          /\ email' = [m \in 1..n |-> Unclassified]
          /\ ppc' = IF n = 0 THEN "done" ELSE "categorize"
          /\ idx' = IF n = 0 THEN 0 ELSE 1
    /\ passes' = passes + 1
    /\ UNCHANGED <<vars, bvars, apivars, penv, mailbox, applied, notified, fault, create_call,
                   modify_call, results, response_msg, response>>

\* categorize, lines 22-31 and 54-55: the oracle is asked about the next email and
\* answers with a text, or the call raises and the email is not appended; the
\* error print names the subject and raises itself when the console cannot encode it
invoke_oracle ==
    /\ ppc = "categorize"
    /\ idx <= Len(emails)
    /\ \/ \E content \in BatchTexts :
             /\ response_msg' = content
             /\ ppc' = "store"
             /\ UNCHANGED <<response, idx, fault>>
       \/ \E printable \in {TRUE, console_unicode} :
             /\ response_msg' = NoResponse
             /\ response' = NoResponse
             /\ fault' = TRUE
             /\ IF printable
                THEN idx' = idx + 1 /\ UNCHANGED ppc
                ELSE ppc' = "raised" /\ idx' = 0
    /\ UNCHANGED <<vars, bvars, apivars, penv, mailbox, applied, notified, create_call,
                   modify_call, passes, emails, email, results>>

\* variant: the newest result comes first
collect_first(done, m) == <<m>> \o done

\* categorizer.py, line 47: `results.append(email)`
collect(done, m) == Append(done, m)

\* categorize, lines 33-47: the text is normalised, mapped to a key and stored in
\* the email together with the key's label, and the email is appended to results
store_category ==
    /\ ppc = "store"
    /\ response' = normalise(response_msg)
    /\ email' = [email EXCEPT ![emails[idx]] = classified(response_msg)]
    /\ results' = collect(results, emails[idx])
    /\ idx' = idx + 1
    /\ ppc' = "categorize"
    /\ UNCHANGED <<vars, bvars, apivars, penv, mailbox, pass_log, emails, response_msg>>

\* categorize returns `results`; the loop of line 34 begins, or has nothing to do
categorize_return ==
    /\ ppc = "categorize"
    /\ idx > Len(emails)
    /\ response' = NoResponse
    /\ response_msg' = NoResponse
    /\ ppc' = IF results = <<>> THEN "done" ELSE "ensure"
    /\ idx' = IF results = <<>> THEN 0 ELSE 1
    /\ UNCHANGED <<vars, bvars, apivars, penv, mailbox, pass_log, emails, email, results>>

\* create_label raises into its except block: the call failed or was refused, or
\* the label was made and printing its name raised
create_faulty(label_name, g) == ~created(label_name, g) \/ ~console_unicode

\* no labels().create call
NoCall == <<>>

\* create_label(label_name) sends labels().create with the name, to a mailbox in
\* which a label matches the name or none does
create_requested(label_name) == <<label_name, matching(labels, label_name) # {}>>

\* lines 35-40: `if not check_label_exists(label_name): create_label(label_name)`
ensure_label ==
    /\ ppc = "ensure"
    /\ LET label_name == email[results[idx]].category_label
       IN  \E listing \in listings :
              IF matching(listing, label_name) # {}
              THEN /\ UNCHANGED labels
                   /\ create_call' = NoCall
                   /\ fault' = (fault \/ listing # labels)
              ELSE \E g \in {"ok", "error"} :
                      /\ labels' = labels_after_create(label_name, g)
                      /\ create_call' = create_requested(label_name)
                      /\ fault' = (fault \/ listing # labels \/ create_faulty(label_name, g))
    /\ ppc' = "apply"
    /\ UNCHANGED <<vars, bvars, apivars, penv, msg_labels, applied, notified, modify_call, passes,
                   emails, email, results, response, response_msg, idx>>

\* users().messages().modify with addLabelIds [id]: the mailbox keeps a message's
\* labelIds free of repetitions
modify_appends(ids, id) == Append(ids, id)

modify(ids, id) ==
    IF \E i \in 1..Len(ids) : ids[i] = id THEN ids ELSE Append(ids, id)

\* the label ids message m carries
ids_of(m) == {msg_labels[m][i] : i \in 1..Len(msg_labels[m])}

\* the messages whose label was applied
labelled == {applied[i][1] : i \in 1..Len(applied)}

\* variant: a failed label step skips the rest of the turn
reaches_notification_if_labelled(m) == m \in labelled

\* line 58 is reached from the try block and from the except block alike
reaches_notification(m) == TRUE

\* lines 44-49: messages().modify is sent for a message with
\* body={'addLabelIds': [id], ...}, where the id is a label's or is None
modify_requested(m, id) == [id |-> m, label_id_given |-> id # None]

\* variant: a labelled email is marked read
unread_after_modify_read(n) == n - 1

\* line 48: `'removeLabelIds': []`, no email leaves the unread ones
unread_after_modify(n) == n

\* lines 43-55: _get_label_id looks the label up, creating it when no listed label
\* matches, and messages().modify adds the id to the message; a None id or a failed
\* call raises inside the try, and the except block prints the subject, which
\* raises out of process_emails when the console cannot encode it
apply_label ==
    /\ ppc = "apply"
    /\ LET m == results[idx]
           label_name == email[m].category_label
       IN  \E listing \in listings, g \in {"ok", "error"}, call \in {"ok", "error"} :
              LET found == matching(listing, label_name)
                  id == IF found # {}
                        THEN label_id(CHOOSE l \in found : TRUE)
                        ELSE create_label(label_name, g)
              IN  /\ labels' = IF found # {} THEN labels
                                ELSE labels_after_create(label_name, g)
                  /\ create_call' = IF found # {} THEN NoCall
                                     ELSE create_requested(label_name)
                  /\ fault' = (\/ fault
                               \/ listing # labels
                               \/ found = {} /\ create_faulty(label_name, g)
                               \/ call = "error")
                  /\ modify_call' = modify_requested(m, id)
                  /\ IF id # None /\ call = "ok"
                     THEN /\ msg_labels' = [msg_labels EXCEPT ![m] = modify(@, id)]
                          /\ applied' = Append(applied, <<m, id>>)
                          /\ ppc' = "notify"
                     ELSE /\ \E printable \in {TRUE, console_unicode} :
                                ppc' = IF printable THEN "notify" ELSE "raised"
                          /\ UNCHANGED <<msg_labels, applied>>
    /\ inbox' = unread_after_modify(inbox)
    /\ UNCHANGED <<vars, bvars, apivars, telegram_set, console_unicode, notified, passes, emails,
                   email, results, response, response_msg, idx>>

\* lines 57-59 and the end of the turn: an important email is notified when the
\* Telegram settings are present; requests.post sits in a try block and a rejected
\* or failed delivery is only printed, so the pass goes on the same way
notify ==
    /\ ppc = "notify"
    /\ LET m == results[idx]
       IN  IF should_notify(email[m].category) /\ reaches_notification(m)
           THEN notified' = Append(notified, callback_data(m))
           ELSE UNCHANGED notified
    /\ ppc' = IF idx < Len(results) THEN "ensure" ELSE "done"
    /\ idx' = IF idx < Len(results) THEN idx + 1 ELSE 0
    /\ create_call' = NoCall
    /\ modify_call' = NoCall
    /\ UNCHANGED <<vars, bvars, apivars, penv, mailbox, applied, fault, passes, emails, email,
                   results, response, response_msg>>

\* labels a mailbox may hold before the agent's pass: a label left by an earlier
\* run, and a label of the user's whose name differs from the agent's only in case
InitialLabels ==
    {lower(JOB_CATEGORIES["uncategorized"].label), JOB_CATEGORIES["interview_request"].label}

PipeInit ==
    /\ ControllerInit
    /\ ApiInit
    /\ PipeIdle
    /\ BotIdle
    /\ llm_set = TRUE
    /\ telegram_set \in BOOLEAN
    /\ console_unicode \in BOOLEAN
    /\ inbox = MaxBatch
    /\ labels \in {{}, InitialLabels}

PipeNext ==
    \/ process_emails
    \/ invoke_oracle
    \/ store_category
    \/ categorize_return
    \/ ensure_label
    \/ apply_label
    \/ notify

PipeSpec == PipeInit /\ [][PipeNext]_allvars

\* main.py, lines 73-94: the pass returned, or raised into the loop's except block,
\* and after the sleep the loop calls process_emails again; the agent keeps nothing
\* of the pass, the mailbox keeps its labels and the emails stay unread
next_pass ==
    /\ ppc \in {"done", "raised"}
    /\ passes < MaxPasses
    /\ ppc' = "idle"
    /\ emails' = <<>>
    /\ email' = <<>>
    /\ results' = <<>>
    /\ idx' = 0
    /\ create_call' = NoCall
    /\ modify_call' = NoCall
    /\ UNCHANGED <<vars, bvars, apivars, penv, mailbox, applied, notified, fault, passes,
                   response_msg, response>>

\* the polling loop over an inbox of one email that stays unread
CycleInit ==
    /\ ControllerInit
    /\ ApiInit
    /\ PipeIdle
    /\ BotIdle
    /\ llm_set = TRUE
    /\ telegram_set \in BOOLEAN
    /\ console_unicode \in BOOLEAN
    /\ inbox = 1
    /\ labels \in {{}, InitialLabels}

CycleNext == PipeNext \/ next_pass

CycleSpec == CycleInit /\ [][CycleNext]_allvars

PipeTypeOK ==
    /\ ppc \in {"idle", "categorize", "store", "ensure", "apply", "notify", "done", "raised"}
    /\ idx \in 0..(MaxBatch + 1)
    /\ DOMAIN email = 1..Len(emails)
    /\ \A m \in DOMAIN email : email[m].category \in TaxonomyKeys \cup {"none"}
    /\ Len(results) <= Len(emails)
    /\ labelled \subseteq Msgs

\* categorize on its own: one email whose oracle answer is any of OracleTexts
CategorizeInit ==
    /\ ControllerInit
    /\ ApiInit
    /\ BotIdle
    /\ llm_set = TRUE
    /\ telegram_set = TRUE
    /\ console_unicode = TRUE
    /\ inbox = 1
    /\ labels = {}
    /\ msg_labels = [m \in Msgs |-> <<>>]
    /\ create_call = <<>>
    /\ modify_call = <<>>
    /\ passes = 1
    /\ ppc = "store"
    /\ emails = fetched(1)
    /\ idx = 1
    /\ email = [m \in 1..1 |-> Unclassified]
    /\ results = <<>>
    /\ response_msg \in OracleTexts
    /\ response = NoResponse
    /\ applied = <<>>
    /\ notified = <<>>
    /\ fault = FALSE

CategorizeSpec == CategorizeInit /\ [][store_category]_allvars

\* ------------------------------------------------------------- the bot's handlers
\* lines 314-348: the reply button of a notification.  The mailbox client is built
\* and the email fetched; without an LLM `email_content` is never bound and line 342
\* raises into the except block; else the draft replaces whatever draft the chat had
handle_reply_callback(c, m) ==
    \E client \in {"ok", "error"}, fetch \in {"ok", "error"}, oracle \in {"ok", "error"} :
       LET d == email_details(m)
           email_content == email_content_of(d)
       IN  IF client = "error"
           THEN answers("Error generating draft", <<>>)
           ELSE IF fetch = "error"
           THEN answers("Could not fetch email details.", <<get_email_details_call(m)>>)
           ELSE IF ~llm_set
           THEN answers("Error generating draft", <<get_email_details_call(m)>>)
           ELSE /\ drafts' = [drafts EXCEPT ![c] =
                                new_draft(m, d, email_content,
                                          generate_reply(email_content, <<>>, oracle))]
                /\ reply' = "Draft Reply"
                /\ calls' = <<get_email_details_call(m),
                              generate_reply_call(email_content, <<>>)>>
                /\ UNCHANGED user_states

\* variant: Send takes whatever draft the chat has
send_accepted_any(draft, draft_id) == draft # NoDraft

\* line 383: `not draft or draft['msg_id'] != draft_id`, negated
send_accepted(draft, draft_id) == draft # NoDraft /\ draft.msg_id = draft_id

\* variant: a delivered draft stays
sent_draft_kept(draft) == draft

\* line 396: `del self.drafts[chat_id]`
sent_draft(draft) == NoDraft

\* variant: a reply that was not delivered leaves its draft
undelivered_draft_kept(draft, sent) == IF sent = "None" THEN draft ELSE sent_draft(draft)

\* lines 389-396: the value send_reply returns is dropped
draft_after_send(draft, sent) == sent_draft(draft)

\* gmail_client.py, lines 254-281: send_reply returns the message the mailbox
\* sent, or None when anything raised
send_reply_returns == {"message", "None"}

\* lines 378-398: the Send button.  send_reply catches its own failures, so only
\* building the mailbox client can raise into the except block, before any call
handle_send_callback(c, draft_id) ==
    LET draft == drafts[c]
    IN  IF ~send_accepted(draft, draft_id)
        THEN answers("Draft expired or not found.", <<>>) /\ sent_message' = NotCalled
        ELSE \E client \in {"ok", "error"} :
                IF client = "error"
                THEN answers("Error sending reply", <<>>) /\ sent_message' = NotCalled
                ELSE \E sent \in send_reply_returns :
                        /\ calls' = <<send_reply_call(draft.thread_id, draft.to,
                                                      draft.subject, draft.body)>>
                        /\ sent_message' = sent
                        /\ reply' = "Reply sent successfully!"
                        /\ drafts' = [drafts EXCEPT ![c] = draft_after_send(draft, sent)]
                        /\ UNCHANGED user_states

\* variant: a chat that is armed stays armed as it is
arm_if_unarmed(state, armed) == IF state = NoState THEN armed ELSE state

\* lines 403 and 425: `self.user_states[chat_id] = {...}`
arm(state, armed) == armed

\* lines 400-406: the Regenerate button arms the chat for the id the button carries
handle_regenerate_callback(c, m) ==
    /\ user_states' = [user_states EXCEPT ![c] =
                          arm(@, [state |-> "awaiting_instructions", msg_id |-> m])]
    /\ reply' = "Please reply to this message with instructions"
    /\ calls' = <<>>
    /\ UNCHANGED drafts

\* variant: Cancel leaves the chat armed
cancelled_state_kept(state) == state

\* lines 413-414: `del self.user_states[chat_id]` if the chat has an entry
cancelled_state(state) == NoState

\* lines 408-415: the Cancel button
handle_cancel_callback(c) ==
    /\ drafts' = [drafts EXCEPT ![c] = NoDraft]
    /\ user_states' = [user_states EXCEPT ![c] = cancelled_state(@)]
    /\ reply' = "Reply cancelled."
    /\ calls' = <<>>

\* lines 417-429: the Edit button arms the chat for the draft it has; the id the
\* button carries is not looked at
handle_edit_callback(c) ==
    LET draft == drafts[c]
    IN  IF draft = NoDraft
        THEN answers("Draft expired.", <<>>)
        ELSE /\ user_states' = [user_states EXCEPT ![c] =
                                   arm(@, [state |-> "awaiting_edit",
                                           msg_id |-> draft.msg_id])]
             /\ reply' = "Please send the new text for the email body."
             /\ calls' = <<>>
             /\ UNCHANGED drafts

\* lines 163-189: a button was pressed in chat c; only the authorised chat's
\* buttons are dispatched, by the prefix of their data
handle_callback_query(c, kind, m) ==
    /\ update' = Update(kind, c, m)
    /\ IF ~authorized(c)
       THEN answers("Unauthorized access", <<>>)
       ELSE CASE kind = "reply" -> handle_reply_callback(c, m)
              [] kind = "send" -> handle_send_callback(c, m)
              [] kind = "regenerate" -> handle_regenerate_callback(c, m)
              [] kind = "cancel" -> handle_cancel_callback(c)
              [] kind = "edit" -> handle_edit_callback(c)
    /\ IF authorized(c) /\ kind = "send" THEN TRUE ELSE sent_message' = NotCalled
    /\ before' = Found(c)
    /\ UNCHANGED <<vars, pvars, apivars, llm_set>>

\* variant: instructions refine the draft's present body
regenerate_from_body(draft) == draft.body

\* line 450: the oracle is given draft['original_content']
regenerate_from(draft) == draft.original_content

\* variant: a consumed text leaves the chat armed
state_after_text_kept(state) == state

\* lines 443, 455, 469, 477: `del self.user_states[chat_id]`
state_after_text(state) == NoState

\* variant: the typed text is put after the body
edit_body_appended(draft, text) == draft.body \o text

\* line 473: `draft['body'] = new_text`
edit_body(draft, text) == text

\* variant: what is typed becomes the draft's subject as well
with_body_and_subject(draft, body) == [draft EXCEPT !.body = body, !.subject = body]

\* lines 451-452 and 473-474: `draft['body'] = ...; self.drafts[chat_id] = draft`
with_body(draft, body) == [draft EXCEPT !.body = body]

\* variant: a text nobody waits for ends the draft
ignore_text_cancels(c, text) ==
    /\ drafts' = [drafts EXCEPT ![c] = NoDraft]
    /\ reply' = "none"
    /\ calls' = <<>>
    /\ UNCHANGED user_states

\* lines 481-483: `pass`
ignore_text(c, text) ==
    /\ reply' = "none"
    /\ calls' = <<>>
    /\ UNCHANGED <<drafts, user_states>>

\* lines 441 and 467: `not draft or draft['msg_id'] != msg_id`
context_lost(draft, state) == draft = NoDraft \/ draft.msg_id # state.msg_id

\* lines 431-483: a text that is no command, from any chat.  An armed chat whose
\* draft is still the one it was armed for has the draft's body replaced, by the
\* oracle's text or by the typed text; every other text is passed over
handle_message(c, text) ==
    /\ update' = Update("text", c, text)
    /\ LET state == user_states[c]
           draft == drafts[c]
       IN  IF state = NoState
           THEN ignore_text(c, text)
           ELSE IF context_lost(draft, state)
           THEN /\ user_states' = [user_states EXCEPT ![c] = state_after_text(state)]
                /\ reply' = "Draft context lost. Please start over."
                /\ calls' = <<>>
                /\ UNCHANGED drafts
           ELSE IF state.state = "awaiting_instructions"
           THEN IF ~llm_set
                THEN answers("Error regenerating draft", <<>>)
                ELSE \E oracle \in {"ok", "error"} :
                        /\ drafts' = [drafts EXCEPT ![c] =
                                         with_body(draft, generate_reply(
                                             regenerate_from(draft), text, oracle))]
                        /\ user_states' = [user_states EXCEPT ![c] = state_after_text(state)]
                        /\ reply' = "Draft Reply"
                        /\ calls' = <<generate_reply_call(regenerate_from(draft), text)>>
           ELSE /\ drafts' = [drafts EXCEPT ![c] = with_body(draft, edit_body(draft, text))]
                /\ user_states' = [user_states EXCEPT ![c] = state_after_text(state)]
                /\ reply' = "Draft Reply"
                /\ calls' = <<>>
    /\ sent_message' = NotCalled
    /\ before' = Found(c)
    /\ UNCHANGED <<vars, pvars, apivars, llm_set>>

\* ---- the chat commands.  A command handler runs the controller operation it
\* calls to its end within the update, so the operation is one step here; how its
\* accesses interleave with the worker is looked at in Spec.
\* what every command handler leaves alone: the drafts and the chat states
command(c, name) ==
    /\ cpc = "idle"
    /\ update' = Update(name, c, <<>>)
    /\ sent_message' = NotCalled
    /\ before' = Found(c)
    /\ UNCHANGED <<pvars, apivars, llm_set, drafts, user_states>>

\* lines 31-46: /start, the check of the chat and then start_agent() in its
\* default mode
start_command(c) ==
    /\ command(c, "/start")
    /\ calls' = <<>>
    /\ IF ~authorized(c)
       THEN /\ reply' = "Unauthorized access"
            /\ UNCHANGED vars
       ELSE IF start_refused
       THEN /\ result' = Ret("start", FALSE, "Agent is already running")
            /\ reply' = "Agent is already running"
            /\ UNCHANGED <<ctlvars, evset, wvars, cpc, now, statusWriter>>
       ELSE \E w \in Workers :
            /\ wpc[w] = "unborn"
            /\ \A v \in Workers : v < w => wpc[v] # "unborn"
            /\ stop_event' = w
            /\ agent_thread' = w
            /\ evset' = [evset EXCEPT ![w] = FALSE]
            /\ wpc' = [wpc EXCEPT ![w] = "begin"]
            /\ wmode' = [wmode EXCEPT ![w] = "monitor"]
            /\ agent_status' = "Running"
            /\ statusWriter' = "start_agent"
            /\ result' = Ret("start", TRUE, "Agent started successfully")
            /\ reply' = "Email Agent Started!"
            /\ UNCHANGED <<last_run_time, wi, cpc, now, wexit, lastWrite>>

\* lines 48-63: /stop, the check of the chat and then stop_agent()
stop_command(c) ==
    /\ command(c, "/stop")
    /\ calls' = <<>>
    /\ IF ~authorized(c)
       THEN /\ reply' = "Unauthorized access"
            /\ UNCHANGED vars
       ELSE IF stop_refused
       THEN /\ result' = Ret("stop", FALSE, "Agent is not running")
            /\ reply' = "Agent is not running"
            /\ UNCHANGED <<ctlvars, evset, wvars, cpc, now, statusWriter>>
       ELSE /\ evset' = IF stop_event # 0 THEN [evset EXCEPT ![stop_event] = TRUE]
                        ELSE evset
            /\ agent_status' = "Stopping..."
            /\ statusWriter' = "stop_agent"
            /\ result' = Ret("stop", TRUE, "Agent stopping...")
            /\ reply' = "Email Agent Stopping..."
            /\ UNCHANGED <<agent_thread, stop_event, last_run_time, wvars, cpc, now>>

\* lines 65-81: /status, the check of the chat and then get_agent_status()
status_command(c) ==
    /\ command(c, "/status")
    /\ calls' = <<>>
    /\ IF ~authorized(c)
       THEN /\ reply' = "Unauthorized access"
            /\ UNCHANGED vars
       ELSE /\ agent_status' = IF reconcile THEN "Stopped" ELSE agent_status
            /\ statusWriter' = IF reconcile THEN "get_agent_status" ELSE statusWriter
            /\ result' = StatusRet(agent_status', last_run_time)
            /\ reply' = "Agent Status"
            /\ UNCHANGED <<agent_thread, stop_event, last_run_time, evset, wvars, cpc, now>>

\* lines 83-140: /labels, the check of the chat and then the label statistics of
\* a new mailbox client, whose construction may raise
labels_command(c) ==
    /\ command(c, "/labels")
    /\ UNCHANGED vars
    /\ IF ~authorized(c)
       THEN /\ reply' = "Unauthorized access"
            /\ calls' = <<>>
       ELSE \E client \in {"ok", "error"}, label_stats \in {"none", "some"} :
               IF client = "error"
               THEN /\ reply' = "Error fetching label statistics"
                    /\ calls' = <<>>
               ELSE /\ reply' = IF label_stats = "none" THEN "No email labels found."
                                ELSE "Email Categorization Statistics"
                    /\ calls' = <<get_label_statistics_call>>

\* the buttons a chat can press: those of any notification or draft ever shown
Buttons == {"reply", "send", "regenerate", "cancel", "edit"}

\* the bot beside a controller and a pipeline that are not looked into
BotInit ==
    /\ ControllerInit
    /\ ApiInit
    /\ PipeIdle
    /\ telegram_set = TRUE
    /\ console_unicode = TRUE
    /\ inbox = 0
    /\ labels = {}
    /\ BotIdle
    /\ llm_set \in BOOLEAN

BotNext ==
    \/ \E c \in Chats, kind \in Buttons, m \in Msgs : handle_callback_query(c, kind, m)
    \/ \E c \in Chats, text \in FreeTexts : handle_message(c, text)

BotSpec == BotInit /\ [][BotNext]_allvars

\* every handler setup_handlers registers for a chat's updates: the buttons and the
\* texts of BotSpec, and the commands
ChatNext ==
    \/ \E c \in Chats, kind \in Buttons, m \in Msgs : handle_callback_query(c, kind, m)
    \/ \E c \in Chats, text \in FreeTexts : handle_message(c, text)
    \/ \E c \in Chats : start_command(c)
    \/ \E c \in Chats : stop_command(c)
    \/ \E c \in Chats : status_command(c)
    \/ \E c \in Chats : labels_command(c)

ChatSpec == BotInit /\ [][ChatNext]_allvars

BotTypeOK ==
    /\ \A c \in Chats :
          /\ drafts[c] # NoDraft => drafts[c].msg_id \in Msgs
          /\ user_states[c] # NoState =>
                /\ user_states[c].state \in {"awaiting_instructions", "awaiting_edit"}
                /\ user_states[c].msg_id \in Msgs
    /\ update.kind \in Buttons \cup {"text", "none", "/start", "/stop", "/status", "/labels"}
    /\ Len(calls) <= 2

\* ------------------------------------------------------------- the HTTP surface
\* api.py keeps agent_thread, stop_event, agent_status and last_run_time of its own
\* and never calls agent_controller.  Its endpoints are one step each, as the chat
\* commands are; the rate limiter in front of them turns a request away before the
\* endpoint runs and changes nothing.
\* api.py, lines 39 and 54: `agent_thread and agent_thread.is_alive()`
api_thread_alive == api_agent_thread # 0 /\ is_alive(api_agent_thread)

\* api.py, lines 34-47: POST /agent/start
api_start_agent ==
    /\ cpc = "idle"
    /\ IF api_thread_alive
       THEN /\ result' = Ret("start", FALSE, "Agent is already running")
            /\ UNCHANGED <<apivars, evset, wpc>>
       ELSE \E w \in Workers :
            /\ wpc[w] = "unborn"
            /\ \A v \in Workers : v < w => wpc[v] # "unborn"
            /\ api_stop_event' = w
            /\ api_agent_thread' = w
            /\ wtarget' = [wtarget EXCEPT ![w] = "api"]
            /\ evset' = [evset EXCEPT ![w] = FALSE]
            /\ wpc' = [wpc EXCEPT ![w] = "begin"]
            /\ api_agent_status' = "Running"
            /\ result' = Ret("start", TRUE, "Agent started")
            /\ UNCHANGED api_last_run_time
    /\ UNCHANGED <<ctlvars, wmode, wi, wexit, lastWrite, cpc, now, statusWriter, pvars, bvars>>

\* api.py, lines 49-61: POST /agent/stop
api_stop_agent ==
    /\ cpc = "idle"
    /\ IF ~api_thread_alive
       THEN /\ result' = Ret("stop", FALSE, "Agent is not running")
            /\ UNCHANGED <<apivars, evset>>
       ELSE /\ evset' = IF api_stop_event # 0 THEN [evset EXCEPT ![api_stop_event] = TRUE]
                        ELSE evset
            /\ api_agent_status' = "Stopping..."
            /\ result' = Ret("stop", TRUE, "Agent stopping...")
            /\ UNCHANGED <<api_agent_thread, api_stop_event, api_last_run_time, wtarget>>
    /\ UNCHANGED <<ctlvars, wvars, cpc, now, statusWriter, pvars, bvars>>

\* api.py, lines 63-74: GET /agent/status
api_get_status ==
    /\ cpc = "idle"
    /\ api_agent_status' =
          IF api_agent_thread # 0 /\ ~is_alive(api_agent_thread)
                /\ api_agent_status = "Running"
          THEN "Stopped" ELSE api_agent_status
    /\ result' = StatusRet(api_agent_status', api_last_run_time)
    /\ UNCHANGED <<api_agent_thread, api_stop_event, api_last_run_time, wtarget>>
    /\ UNCHANGED <<ctlvars, evset, wvars, cpc, now, statusWriter, pvars, bvars>>

\* api.py, lines 24-27: run_agent_wrapper, the try block's first statement
run_agent_wrapper_begin(w) ==
    /\ wtarget[w] = "api"
    /\ wpc[w] = "begin"
    /\ api_last_run_time' = strftime(now)
    /\ lastWrite' = [lastWrite EXCEPT ![w] = "last_run_time"]
    /\ wpc' = [wpc EXCEPT ![w] = "init"]
    /\ UNCHANGED <<api_agent_thread, api_stop_event, api_agent_status, wtarget>>
    /\ UNCHANGED <<ctlvars, evset, wmode, wi, cpc, result, now, wexit, statusWriter,
                   pvars, bvars>>

\* api.py, lines 31-32: run_agent_wrapper, `finally: agent_status = "Stopped"`
run_agent_wrapper_finally(w) ==
    /\ wtarget[w] = "api"
    /\ wpc[w] = "finally"
    /\ api_agent_status' = finally_status
    /\ lastWrite' = [lastWrite EXCEPT ![w] = finally_status]
    /\ wpc' = [wpc EXCEPT ![w] = "exiting"]
    /\ UNCHANGED <<api_agent_thread, api_stop_event, api_last_run_time, wtarget>>
    /\ UNCHANGED <<ctlvars, evset, wmode, wi, cpc, result, now, wexit, statusWriter,
                   pvars, bvars>>

\* the steps of a thread in monitor mode: neither surface passes a mode, so
\* run_polling_loop runs with initial_mode="monitor" and skips the backfill pass
MonitorStep(w) ==
    \/ wrapper_begin(w)
    \/ initialize_agent(w)
    \/ loop_top(w)
    \/ monitor_pass(w)
    \/ pass_failed(w)
    \/ sleep_check(w)
    \/ sleep_tick(w)
    \/ wrapper_finally(w)
    \/ thread_exit(w)

\* the chats whose commands reach the controller
Operators == {c \in Chats : authorized(c)}

\* the two surfaces of one process: the commands of the authorised chat, the HTTP
\* endpoints, and the threads either of them started
SurfaceNext ==
    \/ \E c \in Operators : start_command(c)
    \/ \E c \in Operators : stop_command(c)
    \/ \E c \in Operators : status_command(c)
    \/ api_start_agent
    \/ api_stop_agent
    \/ api_get_status
    \/ \E w \in Workers : MonitorStep(w)
    \/ \E w \in Workers : run_agent_wrapper_begin(w)
    \/ \E w \in Workers : run_agent_wrapper_finally(w)

SurfaceSpec == Init /\ [][SurfaceNext]_allvars

\* ------------------------------------------------------------- claims
\* C1: in every reachable state at most one thread spawned by the controller is alive
C1_AtMostOneWorkerAlive == Cardinality(AliveWorkers) <= 1

\* a second worker runs after the first one crashed on an exception
C1_Witness ==
    /\ wpc[1] = "dead"
    /\ wexit[1] = "exception"
    /\ wpc[2] = "pass"

\* C2: start_agent called while the stored thread is alive (whatever the stored
\* status) returns the failure "Agent is already running", creates no thread and
\* leaves agent_thread, stop_event, agent_status and last_run_time (and every
\* thread and event) as they were
C2_StartWhileAliveRefused ==
    [][\A m \in Modes :
          (start_agent(m) /\ thread_alive) =>
              /\ result' = Ret("start", FALSE, "Agent is already running")
              /\ cpc' = "idle"
              /\ UNCHANGED <<agent_thread, stop_event, agent_status, last_run_time,
                             wpc, wmode, evset>>]_vars

\* a start was refused while the worker, already told to stop, is still in a pass
C2_Witness ==
    /\ cpc = "idle"
    /\ result = Ret("start", FALSE, "Agent is already running")
    /\ thread_alive
    /\ agent_status = "Stopping..."
    /\ wpc[agent_thread] = "pass"

\* C3: start_agent called while no worker is alive succeeds whatever the stored
\* status is: its first step makes exactly one new thread alive, bound to a fresh
\* unset event and to the mode asked for, and its second step stores Running and
\* returns success
C3_StartWhenDeadSucceeds ==
    [][/\ \A m \in Modes :
             (start_agent(m) /\ ~thread_alive) =>
                 /\ cpc' = "start_write"
                 /\ agent_thread' \notin AliveWorkers
                 /\ AliveWorkers' = AliveWorkers \cup {agent_thread'}
                 /\ Cardinality(AliveWorkers') = 1
                 /\ wmode'[agent_thread'] = m
                 /\ stop_event' = event_of(agent_thread')
                 /\ ~evset'[stop_event']
       /\ start_agent_write =>
                 /\ agent_status' = "Running"
                 /\ result' = Ret("start", TRUE, "Agent started successfully")
                 /\ cpc' = "idle"]_vars

\* a restart is under way although the status a crashed worker left behind is Running
C3_Witness ==
    /\ cpc = "start_write"
    /\ agent_status = "Running"
    /\ wpc[1] = "dead"
    /\ wexit[1] = "exception"
    /\ agent_thread = 2
    /\ wpc[2] = "begin"

LegalTransitions ==
    {<<"Stopped", "Running">>, <<"Running", "Stopping...">>, <<"Stopping...", "Stopped">>}

C5_StopLeadsToStopped ==
    (cpc = "idle" /\ result = Ret("stop", TRUE, "Agent stopping...")
        /\ agent_status = "Stopping...")
    ~> (agent_status = "Stopped")

\* C6: a successful stop_agent sets the event of the stored thread and stores
\* Stopping; its steps can always be taken whatever the worker is doing (it does
\* not wait) and none changes any thread's position (it does not terminate the
\* worker), so the worker can still be alive in a pass when it has returned
C6_StopSignalsAndReturns ==
    /\ [](cpc \in {"stop_set", "stop_write"} =>
            ENABLED stop_agent_set \/ ENABLED stop_agent_write)
    /\ [][/\ (stop_agent /\ thread_alive) =>
                /\ cpc' = "stop_set"
                /\ UNCHANGED <<agent_status, evset, wpc>>
          /\ stop_agent_set =>
                /\ evset'[event_of(agent_thread)]
                /\ cpc' = "stop_write"
                /\ UNCHANGED <<agent_status, wpc>>
          /\ stop_agent_write =>
                /\ agent_status' = "Stopping..."
                /\ result' = Ret("stop", TRUE, "Agent stopping...")
                /\ evset'[event_of(agent_thread)]
                /\ cpc' = "idle"
                /\ UNCHANGED wpc]_vars

\* stop_agent has returned success and the worker is alive in the middle of a pass
C6_Witness ==
    /\ cpc = "idle"
    /\ result = Ret("stop", TRUE, "Agent stopping...")
    /\ agent_status = "Stopping..."
    /\ evset[event_of(agent_thread)]
    /\ wpc[agent_thread] = "pass"

\* C7: stop_agent called with no thread stored or with a dead one returns the
\* failure "Agent is not running", sets no event and leaves the stored status
\* (and everything else of the controller) as it was
C7_StopWhenDeadRefused ==
    [][(stop_agent /\ ~thread_alive) =>
          /\ result' = Ret("stop", FALSE, "Agent is not running")
          /\ cpc' = "idle"
          /\ UNCHANGED <<agent_thread, stop_event, agent_status, last_run_time,
                         evset, wpc>>]_vars

\* a stop was refused on a dead worker whose stale status Running was left alone
C7_Witness ==
    /\ cpc = "idle"
    /\ result = Ret("stop", FALSE, "Agent is not running")
    /\ agent_thread # 0
    /\ wpc[agent_thread] = "dead"
    /\ agent_status = "Running"

\* C8: get_agent_status stores and returns Stopped when the stored status is
\* Running and the stored thread is dead; in every other case it returns the
\* stored status unchanged; it always returns the stored last_run_time and
\* changes nothing else
C8_ReconcilingRead ==
    [][get_agent_status =>
          /\ IF agent_status = "Running" /\ agent_thread # 0 /\ ~is_alive(agent_thread)
             THEN agent_status' = "Stopped" /\ result' = StatusRet("Stopped", last_run_time)
             ELSE UNCHANGED agent_status /\ result' = StatusRet(agent_status, last_run_time)
          /\ UNCHANGED <<agent_thread, stop_event, last_run_time, evset, wpc, wmode,
                         wi, cpc, now>>]_vars

\* get_agent_status has corrected a stale Running and returned Stopped
C8_Witness ==
    /\ result.op = "status"
    /\ result.status = "Stopped"
    /\ result.last_run # Never
    /\ agent_status = "Stopped"
    /\ statusWriter = "get_agent_status"

\* C9: a dead worker has left run_polling_loop for one of the four reasons and the
\* last thing it assigned is agent_status = "Stopped"
C9_WorkerDiesAfterStopped ==
    \A w \in Workers :
        wpc[w] = "dead" =>
            /\ lastWrite[w] = "Stopped"
            /\ wexit[w] \in {"cancelled", "init_failed", "backfill_failed", "exception"}

\* one worker died of a fatal backfill error, the next of an escaped exception
C9_Witness ==
    /\ wpc[1] = "dead" /\ wexit[1] = "backfill_failed"
    /\ wpc[2] = "dead" /\ wexit[2] = "exception"

\* C10: when the last operation completed is a get_agent_status and the stored
\* thread was started in backfill mode, its event was never set and neither its
\* initialisation nor its backfill pass failed, that call returned Running
C10_BackfillKeepsRunning ==
    (/\ cpc = "idle"
     /\ result.op = "status"
     /\ agent_thread # 0
     /\ wmode[agent_thread] = "backfill"
     /\ ~evset[event_of(agent_thread)]
     /\ wexit[agent_thread] = "none")
    => result.status = "Running"

\* a backfill worker is asleep in the monitoring loop and the status read is Running
C10_Witness ==
    /\ cpc = "idle"
    /\ result.op = "status"
    /\ result.status = "Running"
    /\ agent_thread # 0
    /\ wmode[agent_thread] = "backfill"
    /\ wpc[agent_thread] = "sleeping"
    /\ wi[agent_thread] = POLLING_INTERVAL - 1
    /\ ~evset[event_of(agent_thread)]

\* C11: a worker whose backfill pass raised goes straight to the finally block and
\* ends: it is never at the loop top, in a narrow pass or asleep, a narrow pass is
\* only entered from the loop top by a worker that has not failed, and the finally
\* block stores "Stopped"
C11_BackfillFailureIsFatal ==
    /\ [](\A w \in Workers :
            wexit[w] = "backfill_failed" =>
                /\ wmode[w] = "backfill"
                /\ wpc[w] \in {"finally", "exiting", "dead"}
                /\ wpc[w] \in {"exiting", "dead"} => lastWrite[w] = "Stopped")
    /\ [][\A w \in Workers :
            /\ (wpc'[w] = "pass" /\ wpc[w] # "pass") =>
                   (wpc[w] = "looptop" /\ wexit[w] = "none")
            /\ (wpc[w] = "finally" /\ wpc'[w] # "finally") =>
                   (agent_status' = "Stopped" /\ wpc'[w] = "exiting")]_vars

\* a backfill worker died of its wide pass and the stored status is Stopped
C11_Witness ==
    /\ agent_thread = 1
    /\ wmode[1] = "backfill"
    /\ wexit[1] = "backfill_failed"
    /\ wpc[1] = "dead"
    /\ agent_status = "Stopped"

\* C12: a worker in the except block of the monitoring loop is alive and has not
\* left the loop; it goes on to the sleep loop with a fresh counter, the sleep loop
\* only leads back to the loop top, and the loop top starts another pass unless the
\* worker's event is set
C12_PassFailureKeepsWorker ==
    /\ [](\A w \in Workers :
            wpc[w] \in {"pass_failed", "sleep_check", "sleeping"} =>
                (is_alive(w) /\ wexit[w] = "none"))
    /\ [][\A w \in Workers :
            /\ (wpc[w] = "pass_failed" /\ wpc'[w] # "pass_failed") =>
                   (wpc'[w] = "sleep_check" /\ wi'[w] = 0 /\ wexit'[w] = "none")
            /\ (wpc[w] = "sleep_check" /\ wpc'[w] # "sleep_check") =>
                   wpc'[w] \in {"sleeping", "looptop"}
            /\ (wpc[w] = "sleeping" /\ wpc'[w] # "sleeping") => wpc'[w] = "sleep_check"
            /\ (wpc[w] = "looptop" /\ wpc'[w] # "looptop" /\ ~evset[event_of(w)]) =>
                   wpc'[w] = "pass"]_vars

\* a narrow pass has just raised: the worker is in the except block, not cancelled
C12_Witness ==
    /\ wpc[1] = "pass_failed"
    /\ wmode[1] = "monitor"
    /\ ~evset[event_of(1)]
    /\ agent_status = "Running"

\* C13: once a worker's event is set it stays set and the worker starts no narrow
\* pass; a pass or backfill in flight ends by itself; a sleep in flight ends and
\* the check before the next sleep leaves the sleep loop, so at most one more
\* sleep is finished; the loop top then leaves the loop.  Only the loop top turns
\* the event into the exit reason "cancelled"
C13_CooperativeCancellation ==
    [][\A w \in Workers :
        /\ (wexit'[w] = "cancelled" /\ wexit[w] # "cancelled") => wpc[w] = "looptop"
        /\ evset[event_of(w)] =>
            /\ evset'[event_of(w)]
            /\ wpc'[w] = "pass" => wpc[w] = "pass"
            /\ (wpc[w] = "pass" /\ wpc'[w] # "pass") =>
                   wpc'[w] \in {"sleep_check", "pass_failed"}
            /\ (wpc[w] = "backfill" /\ wpc'[w] # "backfill") =>
                   (wpc'[w] \in {"looptop", "finally"} /\ wexit'[w] # "cancelled")
            /\ (wpc[w] = "sleeping" /\ wpc'[w] # "sleeping") => wpc'[w] = "sleep_check"
            /\ (wpc[w] = "sleep_check" /\ wpc'[w] # "sleep_check") =>
                   wpc'[w] = "looptop"
            /\ (wpc[w] = "looptop" /\ wpc'[w] # "looptop") =>
                   (wpc'[w] = "finally" /\ wexit'[w] = "cancelled")]_vars

\* the event was set while the worker was in the first sleep of its sleep loop
C13_Witness ==
    /\ wpc[1] = "sleeping"
    /\ wi[1] = 0
    /\ evset[event_of(1)]
    /\ cpc = "stop_write"

\* C14: no thread is ever spawned whose initialisation fails for missing
\* credentials or a missing API key, and no start that spawned such a thread
\* reported success
C14_NoWorkerOnInitFailure ==
    \A w \in Workers :
        wexit[w] = "init_failed" => (wpc[w] = "unborn" /\ agent_thread # w)

\* ---- the pipeline's claims
\* message m's turn of the labelling loop (lines 34-59) has run to its end
turn_done(m) ==
    \E j \in 1..Len(results) :
        /\ results[j] = m
        /\ \/ ppc = "done"
           \/ ppc \in {"ensure", "apply", "notify", "raised"} /\ j < idx

\* notifications posted for message m
notify_count(m) == Cardinality({i \in 1..Len(notified) : notified[i] = callback_data(m)})

\* label ids the mailbox can hand out for the display label of category k: the
\* label of that name, or the one whose name differs from it only in case
labels_of(k) == {JOB_CATEGORIES[k].label, lower(JOB_CATEGORIES[k].label)}

\* the key an answer b, written without padding and in lower case, stands for
key_meant(b) ==
    IF \E k \in TaxonomyKeys : KeyText[k] = b
    THEN CHOOSE k \in TaxonomyKeys : KeyText[k] = b
    ELSE "uncategorized"

\* C15: every email either has no category or has a taxonomy key as category and
\* that key's display label as label; and when the oracle's text is an answer b
\* in any casing with whitespace around it, the normalised text is b and the
\* category stored is b if b is a key and "uncategorized" otherwise
C15_CategoryIsTaxonomyKey ==
    /\ \A m \in DOMAIN email :
          \/ email[m] = Unclassified
          \/ /\ email[m].category \in TaxonomyKeys
             /\ email[m].category_label = JOB_CATEGORIES[email[m].category].label
    /\ (ppc = "categorize" /\ response_msg # NoResponse) =>
          \A b \in OracleAnswers : \A c \in Casings(b) : \A lead \in Pads, trail \in Pads :
              response_msg = lead \o c \o trail =>
                  /\ response = b
                  /\ email[emails[idx - 1]].category = key_meant(b)

\* the oracle said "OFFER" between a blank and a newline; the email is an offer
C15_Witness ==
    /\ ppc = "categorize"
    /\ emails = fetched(1)
    /\ response_msg = <<" ", "O", "F", "F", "E", "R", "\n">>
    /\ email[1].category = "offer"
    /\ results = <<1>>

\* the batch of the scenario: three emails classified interview_request,
\* newsletter and offer, the pass over and no call failed
Scenario16 ==
    /\ ppc = "done"
    /\ ~fault
    /\ emails = fetched(3)
    /\ email[1].category = "interview_request"
    /\ email[2].category = "newsletter"
    /\ email[3].category = "offer"

\* C16 as stated: the scenario's pass, with Telegram set up, applies exactly 2
\* labels and posts exactly 1 notification
C16_TwoLabelsOneNotification ==
    (Scenario16 /\ telegram_set) => (Len(applied) = 2 /\ Len(notified) = 1)

\* C16 amended: the scenario's pass applies exactly 3 labels, to the three emails
\* in order and each the label of the email's category, and posts exactly one
\* notification, for the interview_request email, when Telegram is set up and
\* none when it is not
C16_ThreeLabelsOneNotification ==
    Scenario16 =>
        /\ Len(applied) = 3
        /\ \A i \in 1..3 :
              /\ applied[i][1] = i
              /\ applied[i][2] \in labels_of(email[i].category)
              /\ ids_of(i) = {applied[i][2]}
        /\ notified = IF telegram_set THEN <<callback_data(1)>> ELSE <<>>

\* the scenario's pass is over with three labels on three emails and one notification
C16_Witness ==
    /\ Scenario16
    /\ telegram_set
    /\ Len(applied) = 3
    /\ ids_of(2) = {JOB_CATEGORIES["newsletter"].label}
    /\ ids_of(3) = {JOB_CATEGORIES["offer"].label}
    /\ notified = <<callback_data(1)>>

\* C17: an email whose oracle text was garbled is stored as "uncategorized"; an
\* uncategorized email is never notified, no label but that of "uncategorized" is
\* applied to it, and that label is on it once its turn is over with no call failed
C17_GarbledIsUncategorized ==
    /\ (ppc = "categorize" /\ response_msg \in Garbled) =>
          /\ ~is_key(response)
          /\ email[emails[idx - 1]].category = "uncategorized"
    /\ \A m \in DOMAIN email :
          email[m].category = "uncategorized" =>
              /\ notify_count(m) = 0
              /\ ids_of(m) \subseteq labels_of("uncategorized")
              /\ (turn_done(m) /\ ~fault) => Cardinality(ids_of(m)) = 1

\* two emails got a garbled answer; the pass is over, both carry the label of
\* "uncategorized" (here the user's own label of that name) and nothing was posted
C17_Witness ==
    /\ ppc = "done"
    /\ telegram_set
    /\ ~fault
    /\ emails = fetched(2)
    /\ email[1].category = "uncategorized"
    /\ email[2].category = "uncategorized"
    /\ ids_of(1) = {lower(JOB_CATEGORIES["uncategorized"].label)}
    /\ ids_of(2) = ids_of(1)
    /\ notified = <<>>

\* C18 as stated: when a pass is over, every classified email of an important
\* category has exactly one notification and every other email has none
C18_OneNotificationPerImportant ==
    ppc = "done" =>
        /\ \A m \in DOMAIN email :
              notify_count(m) =
                  IF email[m].category \in IMPORTANT_CATEGORIES THEN 1 ELSE 0
        /\ \A i \in 1..Len(notified) : \E m \in DOMAIN email : notified[i] = callback_data(m)

\* C18 amended: an email has exactly one notification, carrying reply:<its id>,
\* when its turn of the labelling loop is over, its category is important and the
\* Telegram token and chat id are set; in every other case it has none
C18_OneNotificationIfConfigured ==
    /\ \A m \in DOMAIN email :
          notify_count(m) =
              IF /\ turn_done(m)
                 /\ email[m].category \in IMPORTANT_CATEGORIES
                 /\ telegram_set
              THEN 1 ELSE 0
    /\ \A i \in 1..Len(notified) : \E m \in DOMAIN email : notified[i] = callback_data(m)

\* two interview requests and a newsletter: two notifications, one for each request
C18_Witness ==
    /\ ppc = "done"
    /\ telegram_set
    /\ emails = fetched(3)
    /\ email[1].category = "interview_request"
    /\ email[2].category = "interview_request"
    /\ email[3].category = "newsletter"
    /\ notified = <<callback_data(1), callback_data(2)>>

\* C19: process_emails never raises
C19_FailuresNeverEscape == ppc # "raised"

\* message m's label step is over and did not apply the label
label_failed(m) == turn_done(m) /\ m \notin labelled

\* C20 as stated: no notification is posted for an email whose label could not be
\* ensured or applied
C20_FailedLabelNotNotified ==
    \A m \in Msgs : label_failed(m) => notify_count(m) = 0

\* C20 amended: an email whose oracle call failed is not appended to the results
\* and gets no category, no label and no notification in that pass; an email whose
\* label step failed gets no label, and when its turn is over it has its
\* notification all the same if its category is important and Telegram is set up
C20_OnlyOracleFailureSkips ==
    /\ \A m \in DOMAIN email :
          (\A j \in 1..Len(results) : results[j] # m) =>
              /\ email[m] = Unclassified
              /\ ids_of(m) = {}
              /\ notify_count(m) = 0
    /\ \A m \in DOMAIN email :
          label_failed(m) =>
              /\ ids_of(m) = {}
              /\ notify_count(m) =
                    IF email[m].category \in IMPORTANT_CATEGORIES /\ telegram_set
                    THEN 1 ELSE 0

\* the first email's oracle call failed, the second is an interview request whose
\* label could not be applied and which was notified
C20_Witness ==
    /\ ppc = "done"
    /\ emails = fetched(2)
    /\ results = <<2>>
    /\ email[2].category = "interview_request"
    /\ applied = <<>>
    /\ notified = <<callback_data(2)>>

\* ---- the polling loop's claims
\* C21: the agent sends labels().create for a name only when no label of the
\* mailbox matches the name case-insensitively, and never twice for one name (here:
\* the two steps of a turn never both send it)
C21_CreateOnlyIfAbsentOnce ==
    /\ [](create_call # NoCall => ~create_call[2])
    /\ [][(create_call # NoCall /\ create_call' # NoCall)
            => create_call'[1] # create_call[1]]_allvars

\* the ids of m's label applications, in the order they were made
applications(m) == SelectSeq(applied, LAMBDA a : a[1] = m)

chat == update'.chat
sends == update'.kind = "send" /\ authorized(chat)
texts == update'.kind = "text"
matches(draft, id) == IF draft = NoDraft THEN FALSE ELSE draft.msg_id = id
delivery(draft) == send_reply_call(draft.thread_id, draft.to, draft.subject, draft.body)

C24_StaleSendRejected ==
    /\ [][(sends /\ ~matches(drafts[chat], update'.arg)) =>
             /\ calls' = <<>>
             /\ drafts' = drafts
             /\ user_states' = user_states
             /\ reply' = "Draft expired or not found."]_allvars
    /\ [][\A c \in Chats :
             (drafts'[c] # NoDraft /\ ~matches(drafts[c], drafts'[c].msg_id)) =>
                 /\ update' = Update("reply", c, drafts'[c].msg_id)
                 /\ reply' = "Draft Reply"]_allvars

\* the Send button of message 1's draft, pressed after a reply trigger for message
\* 2 replaced that draft, was rejected
C24_Witness ==
    /\ update = Update("send", 1, 1)
    /\ matches(drafts[1], 2)
    /\ reply = "Draft expired or not found."
    /\ calls = <<>>

\* C25: a chat is armed only while it has a draft of the message it is armed for
C25_ArmedOnlyWithDraft ==
    \A c \in Chats :
        user_states[c] # NoState => matches(drafts[c], user_states[c].msg_id)

\* C26: an Edit or Regenerate that references another message than the stored
\* draft's, or finds no draft, is answered with a failure and changes neither map
C26_StaleArmingRejected ==
    [][(/\ update'.kind \in {"edit", "regenerate"}
        /\ authorized(chat)
        /\ ~matches(drafts[chat], update'.arg)) =>
           /\ user_states' = user_states
           /\ drafts' = drafts
           /\ reply' = "Draft expired."]_allvars

\* what the chat of the update awaited before it: nothing, or instructions or an
\* edit for the draft it has
awaits(kind) ==
    /\ user_states[chat] # NoState
    /\ user_states[chat].state = kind
    /\ matches(drafts[chat], user_states[chat].msg_id)

\* C27: a text t that comes while instructions for the chat's draft are awaited is
\* given to the oracle with the draft's original_content; the oracle's answer to
\* these two becomes the body, nothing else of the draft changes and the chat is
\* no longer armed
C27_RegenerateFromOriginal ==
    [][(texts /\ awaits("awaiting_instructions")) =>
          /\ calls' = <<generate_reply_call(drafts[chat].original_content, update'.arg)>>
          /\ \E oracle \in {"ok", "error"} :
                drafts'[chat] =
                    [drafts[chat] EXCEPT !.body =
                        generate_reply(drafts[chat].original_content, update'.arg, oracle)]
          /\ drafts'[chat].original_content =
                email_content_of(email_details(drafts'[chat].msg_id))
          /\ user_states'[chat] = NoState
          /\ reply' = "Draft Reply"]_allvars

\* instructions were typed for the draft of message 1, and its body is the oracle's
\* reply to the email under these instructions
C27_Witness ==
    /\ update.kind = "text"
    /\ update.chat = 1
    /\ matches(drafts[1], 1)
    /\ user_states[1] = NoState
    /\ calls = <<generate_reply_call(email_content_of(email_details(1)), update.arg)>>
    /\ drafts[1].body = generate_reply(email_content_of(email_details(1)), update.arg, "ok")

\* C28: a text t that comes while an edit of the chat's draft is awaited becomes
\* the body as it is, with no call made; and what a Send delivers is the body the
\* draft has then
C28_EditReplacesBody ==
    /\ [][(texts /\ awaits("awaiting_edit")) =>
             /\ drafts'[chat] = [drafts[chat] EXCEPT !.body = update'.arg]
             /\ calls' = <<>>
             /\ user_states'[chat] = NoState
             /\ reply' = "Draft Reply"]_allvars
    /\ [][(sends /\ calls' # <<>>) => calls' = <<delivery(drafts[chat])>>]_allvars

\* the typed text has just become the body of the draft of message 3
C28_Witness ==
    /\ update.kind = "text"
    /\ update.chat = 1
    /\ matches(drafts[1], 3)
    /\ drafts[1].body = update.arg
    /\ calls = <<>>
    /\ reply = "Draft Reply"

\* C29: a text that comes while the chat is armed leaves it unarmed, whether the
\* body was replaced or the draft was found to be gone; a text that comes while
\* the chat is not armed changes neither map
C29_TextConsumedOnce ==
    /\ [][(texts /\ user_states[chat] # NoState) => user_states'[chat] = NoState]_allvars
    /\ [][(texts /\ user_states[chat] = NoState) =>
             drafts' = drafts /\ user_states' = user_states]_allvars

\* a text came for a chat armed for a draft it no longer has
C29_Witness ==
    /\ update.kind = "text"
    /\ reply = "Draft context lost. Please start over."
    /\ user_states[update.chat] = NoState
    /\ calls = <<>>

\* C30: a text that comes while the chat is not armed changes neither map, makes
\* no call to the oracle or the mailbox and is not answered
C30_UnarmedTextIgnored ==
    [][(texts /\ user_states[chat] = NoState) =>
          /\ drafts' = drafts
          /\ user_states' = user_states
          /\ calls' = <<>>
          /\ reply' = "none"]_allvars

\* a text came for a chat that has a draft and is not armed
C30_Witness ==
    /\ update.kind = "text"
    /\ update.chat = 1
    /\ reply = "none"
    /\ drafts[1] # NoDraft
    /\ user_states[1] = NoState

\* C31: Cancel in the authorised chat leaves the chat with no draft and no state,
\* whatever it had, makes no call, and leaves the entries of every other chat alone
C31_CancelClears ==
    [][(update'.kind = "cancel" /\ authorized(chat)) =>
          /\ drafts'[chat] = NoDraft
          /\ user_states'[chat] = NoState
          /\ calls' = <<>>
          /\ sent_message' = NotCalled
          /\ \A c \in Chats \ {chat} :
                drafts'[c] = drafts[c] /\ user_states'[c] = user_states[c]]_allvars

\* Cancel came while the chat had a draft and was armed
C31_Witness ==
    /\ update.kind = "cancel"
    /\ before.draft # NoDraft
    /\ before.state # NoState
    /\ drafts[update.chat] = NoDraft
    /\ user_states[update.chat] = NoState

\* C32: a chat has one slot; Regenerate and Edit write it whether or not it was
\* armed, so the latest of them decides what the next text is taken as, and that
\* one text empties the slot
C32_OneArmedSlot ==
    /\ [][(update'.kind = "regenerate" /\ authorized(chat)) =>
             user_states'[chat] =
                 [state |-> "awaiting_instructions", msg_id |-> update'.arg]]_allvars
    /\ [][(update'.kind = "edit" /\ authorized(chat) /\ drafts[chat] # NoDraft) =>
             user_states'[chat] =
                 [state |-> "awaiting_edit", msg_id |-> drafts[chat].msg_id]]_allvars
    /\ [][(texts /\ user_states[chat] # NoState) =>
             /\ user_states'[chat] = NoState
             /\ calls' # <<>> => user_states[chat].state = "awaiting_instructions"
             /\ (drafts' # drafts /\ calls' = <<>>) =>
                   user_states[chat].state = "awaiting_edit"]_allvars

\* Edit was pressed while the chat awaited instructions, and now it awaits an edit
C32_Witness ==
    /\ update.kind = "edit"
    /\ before.state # NoState
    /\ before.state.state = "awaiting_instructions"
    /\ user_states[update.chat] # NoState
    /\ user_states[update.chat].state = "awaiting_edit"

C39_OnlyBodyChanges ==
    /\ [](\A c \in Chats :
            drafts[c] # NoDraft =>
                LET d == email_details(drafts[c].msg_id)
                IN  /\ drafts[c].thread_id = d.threadId
                    /\ drafts[c].to = d.from
                    /\ drafts[c].subject = reply_subject(d)
                    /\ drafts[c].original_content = email_content_of(d))
    /\ [][update'.kind \in {"text", "edit", "regenerate"} =>
             \A c \in Chats :
                 drafts[c] # NoDraft =>
                     /\ drafts'[c] # NoDraft
                     /\ [drafts'[c] EXCEPT !.body = <<>>] = [drafts[c] EXCEPT !.body = <<>>]
         ]_allvars
    /\ [][(sends /\ calls' # <<>>) =>
             /\ calls'[1][2] = email_details(update'.arg).threadId
             /\ calls'[1][3] = email_details(update'.arg).from]_allvars

\* the draft of message 3, its body typed by the operator, went to the thread and
\* the sender of message 3
C39_Witness ==
    /\ update = Update("send", 1, 3)
    /\ before.draft # NoDraft
    /\ before.draft.body \in FreeTexts
    /\ calls # <<>>
    /\ calls[1][2] = email_details(3).threadId
    /\ calls[1][3] = email_details(3).from

\* ---- the pipeline's order and calls
\* a sequence of message ids that follows the fetch order
in_fetch_order(ms) == \A i, j \in 1..Len(ms) : i < j => ms[i] < ms[j]

\* the messages of the label applications and of the notifications, as they came
applied_msgs == [i \in 1..Len(applied) |-> applied[i][1]]
notified_msgs == [i \in 1..Len(notified) |-> notified[i][2]]

\* C35: within a pass the classified emails keep the order of the fetch, labels
\* are applied and notifications posted in that order, and while an email has its
\* turn nothing has been applied or posted for a later one, and its own
\* notification has not been posted before its label step is over
C35_FetchOrder ==
    /\ in_fetch_order(results)
    /\ in_fetch_order(applied_msgs)
    /\ in_fetch_order(notified_msgs)
    /\ ppc \in {"categorize", "store"} => applied = <<>> /\ notified = <<>>
    /\ ppc \in {"ensure", "apply", "notify"} =>
          /\ \A i \in 1..Len(applied) :
                applied_msgs[i] <= results[idx]
                    /\ (ppc # "notify" => applied_msgs[i] < results[idx])
          /\ \A i \in 1..Len(notified) : notified_msgs[i] < results[idx]

\* the second email's classification failed; the first and the third were
\* labelled and notified, in that order
C35_Witness ==
    /\ ppc = "done"
    /\ emails = fetched(3)
    /\ results = <<1, 3>>
    /\ applied_msgs = <<1, 3>>
    /\ notified = <<callback_data(1), callback_data(3)>>

\* C38 as stated: an email classified into an important category is notified in
\* every pass
C38_NotifiedEveryCycle ==
    [][(ppc = "notify" /\ important(email[results[idx]].category)) =>
          notified' = Append(notified, callback_data(results[idx]))]_allvars

\* C38 amended: no step takes an email out of the unread ones or a label off an
\* email, and the notification of a turn depends on the category of this pass and
\* on the Telegram settings alone, not on labels carried or notifications posted
\* before
C38_NothingRemembered ==
    /\ [][inbox' = inbox]_allvars
    /\ [][\A m \in Msgs : ids_of(m) \subseteq ids_of(m)']_allvars
    /\ [][ppc = "notify" =>
             IF important(email[results[idx]].category) /\ telegram_set
             THEN notified' = Append(notified, callback_data(results[idx]))
             ELSE notified' = notified]_allvars

\* the email was fetched, labelled and notified in the first pass and again in
\* the second
C38_Witness ==
    /\ passes = 2
    /\ ppc = "done"
    /\ Len(applications(1)) = 2
    /\ notified = <<callback_data(1), callback_data(1)>>

\* C40: messages().modify is never sent with a label id that is None
C40_NoModifyWithoutId ==
    modify_call # NoCall => modify_call.label_id_given

\* ---- the cancellation signal of a start
\* C36: a successful start_agent stores a signal that no earlier start stored, not
\* raised, and the thread it creates is the one bound to that signal; a signal is
\* raised only while its own thread is the stored one and no later thread exists,
\* a thread is cancelled only by its own signal, and last_run_time is written by
\* the worker's first step alone, never by start_agent
C36_FreshSignalPerStart ==
    [][/\ agent_thread' # agent_thread =>
             /\ wpc[agent_thread'] = "unborn"
             /\ wpc'[agent_thread'] = "begin"
             /\ stop_event' # stop_event
             /\ \A w \in Workers : wpc[w] # "unborn" => event_of(w) # stop_event'
             /\ event_of(agent_thread') = stop_event'
             /\ ~evset'[stop_event']
             /\ last_run_time' = last_run_time
       /\ \A e \in Workers :
             (evset'[e] /\ ~evset[e]) =>
                 /\ stop_event = e
                 /\ event_of(agent_thread) = e
                 /\ \A w \in Workers : w > agent_thread => wpc[w] = "unborn"
       /\ \A w \in Workers :
             (wexit'[w] = "cancelled" /\ wexit[w] # "cancelled") => evset[w]
       /\ last_run_time' # last_run_time =>
             \E w \in Workers : wpc[w] = "begin" /\ wpc'[w] = "init"
       /\ \A w \in Workers :
             (wpc[w] = "begin" /\ wpc'[w] # "begin") =>
                 last_run_time' = strftime(now) /\ lastWrite[w] = "none"]_vars

\* the first worker was stopped and has ended; the second one, started later, is in
\* a pass with its own signal not raised
C36_Witness ==
    /\ evset[1]
    /\ wexit[1] = "cancelled"
    /\ wpc[1] = "dead"
    /\ agent_thread = 2
    /\ stop_event = 2
    /\ ~evset[2]
    /\ wpc[2] = "pass"
    /\ last_run_time = strftime(1)

\* ---- the control surfaces
\* C33: with the chat commands and the HTTP endpoints driving start and stop in one
\* process, at most one polling thread is alive, and while a thread started from
\* one surface is alive a start on the other surface creates no thread and answers
\* 'already running'
C33_OneWorkerAcrossSurfaces ==
    /\ [](Cardinality(AliveWorkers) <= 1)
    /\ [][(AliveWorkers # {} /\ result' # result /\ result'.op = "start") =>
             /\ result' = Ret("start", FALSE, "Agent is already running")
             /\ AliveWorkers' \subseteq AliveWorkers]_allvars

\* a chat whose id is not the configured TELEGRAM_CHAT_ID
stranger(c) == str(c) # authorized_chat_id

\* C34: an update of a chat other than the authorised one, a command or a button,
\* is answered 'Unauthorized access' and changes nothing of the agent status, the
\* threads, the events, the drafts and the chat states, and makes no call of the
\* oracle or of the mailbox; a free text of such a chat changes nothing and makes
\* no call either; and no draft or armed state exists for such a chat
C34_UnauthorisedChangesNothing ==
    /\ [](\A c \in Chats : stranger(c) => drafts[c] = NoDraft /\ user_states[c] = NoState)
    /\ [][stranger(update'.chat) =>
             /\ UNCHANGED <<vars, pvars, apivars, drafts, user_states>>
             /\ calls' = <<>>
             /\ sent_message' = NotCalled
             /\ update'.kind # "text" => reply' = "Unauthorized access"]_allvars

\* an update of the other chat (/start, the Send button or a text) was handled
\* while the authorised chat holds a draft and is armed, and the agent it started
\* is being stopped
C34_Witness ==
    /\ stranger(update.chat)
    /\ update.kind \in {"/start", "send", "text"}
    /\ agent_status = "Stopping..."
    /\ thread_alive
    /\ \E c \in Chats : ~stranger(c) /\ drafts[c] # NoDraft /\ user_states[c] # NoState
====
